---- MODULE Spec2Model ----
(***************************************************************************)
(* Tiling, tile-file reconciliation and streaming mosaic of the            *)
(* Brahmanbaria scripts (src/src/alphaearth, src/src/data,                 *)
(* src/src/naturalforest, src/src/preprocessing).                          *)
(*                                                                         *)
(* Numbers.  The scripts compute in floating-point degrees.  The model     *)
(* computes in integers: one unit of angle is the latitude span of one     *)
(* kilometre (1/111.32 degree), so a length in kilometres of latitude is   *)
(* the same number of units, and a length in kilometres of longitude is    *)
(* 1/cos(reference latitude) times as many.  1/cos is tabulated by SecLat. *)
(* The AOI polygon is a set of unit cells <<x, y>>, cell <<x, y>> being    *)
(* the square [x, x+1] x [y, y+1]; areas are cell counts.                  *)
(***************************************************************************)
EXTENDS Integers, Sequences, FiniteSets, TLC

VARIABLES
    polygon,          \* the AOI polygon (BRAHMANBARIA_BBOX), a set of cells
    tile_width_km,    \* --tile-width-km
    tile_height_km,   \* --tile-height-km
    overlap_km,       \* --tile-overlap-km
    script,           \* which tiler copy the call runs
    tiler,            \* the running tiler call: its position and its yields
    disk,             \* tile files present, as (row, col) keys
    calls,            \* completed tiler calls: [script, out]
    output,           \* --output, the base path of the tile names
    indices,          \* the (row, col) a script is naming
    derived,          \* the script and the path it derived for them
    provider,         \* Earth Engine: "ok", "empty" (no images), "down"
    dirExists,        \* the tile directory exists
    files,            \* paths of the files in the tile directory
    partial,          \* those of them a broken download left incomplete
    job,              \* the checker or download-missing run
    dirAtStart,       \* history: dirExists when the run started
    filesAtStart,     \* history: files when the run started
    events,           \* history: network calls, mkdirs and subprocesses so far
    tile_paths,       \* the tile rasters a mosaic run is given, in order
    max_tile_mb,      \* --max-tile-mb of mosaic_naturalforest
    start_tile,       \* --start-tile of mosaic_naturalforest
    flags,            \* the switches of mosaic_alphaearth_tiles
    mosaic            \* the mosaic run and its output raster

tilerIn == <<polygon, tile_width_km, tile_height_km, overlap_km>>
tilerVars == <<script, tiler>>
callVars == <<disk, calls>>
nameVars == <<output, indices, derived>>
diskVars == <<dirExists, files, partial>>
histVars == <<dirAtStart, filesAtStart, events>>
fileVars == <<provider, diskVars, job, histVars>>
mosaicIn == <<tile_paths, max_tile_mb, start_tile, flags>>
mosaicVars == <<mosaicIn, mosaic>>
vars == <<tilerIn, tilerVars, callVars, nameVars, fileVars, mosaicVars>>

----------------------------------------------------------------------------
(* Bounds of the model *)

MaxExtent == 3
MaxTileKm == 2
MaxOverlapKm == 1
LatBand == 4
MaxDiskIdx == 0
MaxIndex == 11
MaxOff == 2
MaxTileDim == 2
PixelWidth == 2
PixelHeight == 3

----------------------------------------------------------------------------
(* Arithmetic helpers *)

Min(a, b) == IF a <= b THEN a ELSE b
Max(a, b) == IF a >= b THEN a ELSE b
Abs(a) == IF a < 0 THEN -a ELSE a
SetMin(S) == CHOOSE m \in S : \A x \in S : m <= x
SetMax(S) == CHOOSE m \in S : \A x \in S : m >= x

\* 1 / cos(radians(lat)) in model units: 1 in the lowest band of latitudes,
\* growing by one per band (math.cos in km_to_deg_lon and meters_per_degree).
SecLat(lat) == 1 + (Abs(lat) \div LatBand)

----------------------------------------------------------------------------
(* The AOI and the geometry engine *)

\* A quadrilateral AOI whose upper-right corner is cut away, as the
\* Brahmanbaria polygon's is: `cut` cells of the diagonal are outside.
Polygon(lat0, w, h, cut) ==
    {c \in (0 .. w - 1) \X (lat0 .. lat0 + h - 1) :
        (w - 1 - c[1]) + (lat0 + h - 1 - c[2]) >= cut}

Polygons ==
    UNION {UNION {{Polygon(lat0, w, h, cut) : cut \in 0 .. Min(w, h) - 1} :
                  lat0 \in {0, LatBand}} :
           w \in 1 .. MaxExtent, h \in 1 .. MaxExtent}

\* ee.Geometry.Rectangle([lon_start, lat_start, lon_end, lat_end]): its cells.
Rectangle(rect) ==
    {c \in (rect[1] .. rect[3] - 1) \X (rect[2] .. rect[4] - 1) : TRUE}

\* rect.intersection(geometry, ee.ErrorMargin(1))
intersection(rect, geometry) == Rectangle(rect) \cap geometry

\* Mutant: an area that is never zero, as if the test were area >= 0.
area_NeverZero(region) == Cardinality(region) + 1

\* tile_region.area(maxError=1).getInfo()
area(region) == Cardinality(region)

\* meters_per_deg_lat = 111_320, in metres per unit of angle
MetersPerUnit == 1000
----------------------------------------------------------------------------
(* iterate_tiles: the three copies *)

\* Mutant: the conversion done in whole numbers (// for /), so that a short
\* tile converts to zero degrees.
km_to_deg_lat_ae_Truncating(kilometers) == kilometers \div 2

\* km_to_deg_lat of alphaearth/download_alphaearth_embeddings.py
km_to_deg_lat_ae(kilometers) == kilometers

\* km_to_deg_lon of alphaearth/download_alphaearth_embeddings.py (the pole, cos_lat = 0, lies outside the
\* latitudes of the model)
km_to_deg_lon_ae(kilometers, reference_lat) == kilometers * SecLat(reference_lat)

\* get_bounds_from_polygon of alphaearth/download_alphaearth_embeddings.py: (min_lon, min_lat, max_lon, max_lat)
get_bounds_from_polygon_ae(poly) ==
    <<SetMin({c[1] : c \in poly}), SetMin({c[2] : c \in poly}),
      SetMax({c[1] + 1 : c \in poly}), SetMax({c[2] + 1 : c \in poly})>>

\* Mutant: the far edges of a tile are not clipped to the bounding box.
iterate_tiles_ae_Overshoot(t) ==
    LET b == get_bounds_from_polygon_ae(polygon)
        min_lon == b[1]
        min_lat == b[2]
        max_lon == b[3]
        max_lat == b[4]
        ref_lat == (min_lat + max_lat) \div 2
        tile_width_deg == km_to_deg_lon_ae(tile_width_km, ref_lat)
        tile_height_deg == km_to_deg_lat_ae(tile_height_km)
        overlap_lon_deg == km_to_deg_lon_ae(overlap_km, ref_lat)
        overlap_lat_deg == km_to_deg_lat_ae(overlap_km)
        step_lon == tile_width_deg - overlap_lon_deg
        step_lat == tile_height_deg - overlap_lat_deg
    IN  CASE t.pc = "start" ->
               IF tile_width_deg <= 0 \/ tile_height_deg <= 0
               THEN [t EXCEPT !.pc = "ValueError"]
               ELSE IF step_lon <= 0 \/ step_lat <= 0
               THEN [t EXCEPT !.pc = "ValueError"]
               ELSE [t EXCEPT !.pc = "rows", !.row = 0, !.lat_start = min_lat]
          [] t.pc = "rows" ->
               IF t.lat_start < max_lat
               THEN [t EXCEPT !.pc = "cols", !.col = 0, !.lon_start = min_lon]
               ELSE [t EXCEPT !.pc = "done"]
          [] t.pc = "cols" ->
               IF t.lon_start < max_lon
               THEN LET lat_end == t.lat_start + tile_height_deg
                        lon_end == t.lon_start + tile_width_deg
                        rect == <<t.lon_start, t.lat_start, lon_end, lat_end>>
                        tile_region == intersection(rect, polygon)
                    IN  [t EXCEPT
                           !.out = IF area(tile_region) > 0
                                   THEN Append(@, [row |-> t.row, col |-> t.col, rect |-> rect,
                                                 region |-> tile_region])
                                   ELSE @,
                           !.lon_start = @ + step_lon,
                           !.col = @ + 1]
               ELSE [t EXCEPT !.pc = "rows",
                              !.lat_start = @ + step_lat,
                              !.row = @ + 1]
          [] OTHER -> t

\* iterate_tiles of alphaearth/download_alphaearth_embeddings.py, one step of the generator from position t:
\* "start" runs the checks before the loops, "rows" the outer while test,
\* "cols" the inner while test and one pass of its body.
iterate_tiles_ae(t) ==
    LET b == get_bounds_from_polygon_ae(polygon)
        min_lon == b[1]
        min_lat == b[2]
        max_lon == b[3]
        max_lat == b[4]
        ref_lat == (min_lat + max_lat) \div 2
        tile_width_deg == km_to_deg_lon_ae(tile_width_km, ref_lat)
        tile_height_deg == km_to_deg_lat_ae(tile_height_km)
        overlap_lon_deg == km_to_deg_lon_ae(overlap_km, ref_lat)
        overlap_lat_deg == km_to_deg_lat_ae(overlap_km)
        step_lon == tile_width_deg - overlap_lon_deg
        step_lat == tile_height_deg - overlap_lat_deg
    IN  CASE t.pc = "start" ->
               IF tile_width_deg <= 0 \/ tile_height_deg <= 0
               THEN [t EXCEPT !.pc = "ValueError"]
               ELSE IF step_lon <= 0 \/ step_lat <= 0
               THEN [t EXCEPT !.pc = "ValueError"]
               ELSE [t EXCEPT !.pc = "rows", !.row = 0, !.lat_start = min_lat]
          [] t.pc = "rows" ->
               IF t.lat_start < max_lat
               THEN [t EXCEPT !.pc = "cols", !.col = 0, !.lon_start = min_lon]
               ELSE [t EXCEPT !.pc = "done"]
          [] t.pc = "cols" ->
               IF t.lon_start < max_lon
               THEN LET lat_end == Min(t.lat_start + tile_height_deg, max_lat)
                        lon_end == Min(t.lon_start + tile_width_deg, max_lon)
                        rect == <<t.lon_start, t.lat_start, lon_end, lat_end>>
                        tile_region == intersection(rect, polygon)
                    IN  [t EXCEPT
                           !.out = IF area(tile_region) > 0
                                   THEN Append(@, [row |-> t.row, col |-> t.col, rect |-> rect,
                                                 region |-> tile_region])
                                   ELSE @,
                           !.lon_start = @ + step_lon,
                           !.col = @ + 1]
               ELSE [t EXCEPT !.pc = "rows",
                              !.lat_start = @ + step_lat,
                              !.row = @ + 1]
          [] OTHER -> t

\* km_to_deg_lat of alphaearth/check_alphaearth_tiles.py
km_to_deg_lat_chk(kilometers) == kilometers

\* km_to_deg_lon of alphaearth/check_alphaearth_tiles.py (the pole, cos_lat = 0, lies outside the
\* latitudes of the model)
km_to_deg_lon_chk(kilometers, reference_lat) == kilometers * SecLat(reference_lat)

\* get_bounds_from_polygon of alphaearth/check_alphaearth_tiles.py: (min_lon, min_lat, max_lon, max_lat)
get_bounds_from_polygon_chk(poly) ==
    <<SetMin({c[1] : c \in poly}), SetMin({c[2] : c \in poly}),
      SetMax({c[1] + 1 : c \in poly}), SetMax({c[2] + 1 : c \in poly})>>

\* iterate_tiles of alphaearth/check_alphaearth_tiles.py, one step of the generator from position t
\* (it yields row, col alone; rect records the rectangle it tested for them):
\* "start" runs the checks before the loops, "rows" the outer while test,
\* "cols" the inner while test and one pass of its body.
iterate_tiles_chk(t) ==
    LET b == get_bounds_from_polygon_chk(polygon)
        min_lon == b[1]
        min_lat == b[2]
        max_lon == b[3]
        max_lat == b[4]
        ref_lat == (min_lat + max_lat) \div 2
        tile_width_deg == km_to_deg_lon_chk(tile_width_km, ref_lat)
        tile_height_deg == km_to_deg_lat_chk(tile_height_km)
        overlap_lon_deg == km_to_deg_lon_chk(overlap_km, ref_lat)
        overlap_lat_deg == km_to_deg_lat_chk(overlap_km)
        step_lon == tile_width_deg - overlap_lon_deg
        step_lat == tile_height_deg - overlap_lat_deg
    IN  CASE t.pc = "start" ->
               IF tile_width_deg <= 0 \/ tile_height_deg <= 0
               THEN [t EXCEPT !.pc = "ValueError"]
               ELSE IF step_lon <= 0 \/ step_lat <= 0
               THEN [t EXCEPT !.pc = "ValueError"]
               ELSE [t EXCEPT !.pc = "rows", !.row = 0, !.lat_start = min_lat]
          [] t.pc = "rows" ->
               IF t.lat_start < max_lat
               THEN [t EXCEPT !.pc = "cols", !.col = 0, !.lon_start = min_lon]
               ELSE [t EXCEPT !.pc = "done"]
          [] t.pc = "cols" ->
               IF t.lon_start < max_lon
               THEN LET lat_end == Min(t.lat_start + tile_height_deg, max_lat)
                        lon_end == Min(t.lon_start + tile_width_deg, max_lon)
                        rect == <<t.lon_start, t.lat_start, lon_end, lat_end>>
                        tile_region == intersection(rect, polygon)
                    IN  [t EXCEPT
                           !.out = IF area(tile_region) > 0
                                   THEN Append(@, [row |-> t.row, col |-> t.col, rect |-> rect])
                                   ELSE @,
                           !.lon_start = @ + step_lon,
                           !.col = @ + 1]
               ELSE [t EXCEPT !.pc = "rows",
                              !.lat_start = @ + step_lat,
                              !.row = @ + 1]
          [] OTHER -> t

\* km_to_deg_lat of naturalforest/download_naturalforest.py
km_to_deg_lat_nf(kilometers) == kilometers

\* Mutant: kilometres of longitude taken as kilometres of latitude.
km_to_deg_lon_nf_Unscaled(kilometers, reference_lat) == kilometers

\* km_to_deg_lon of naturalforest/download_naturalforest.py (the pole, cos_lat = 0, lies outside the
\* latitudes of the model)
km_to_deg_lon_nf(kilometers, reference_lat) == kilometers * SecLat(reference_lat)

\* get_bounds_from_polygon of naturalforest/download_naturalforest.py: (min_lon, min_lat, max_lon, max_lat)
get_bounds_from_polygon_nf(poly) ==
    <<SetMin({c[1] : c \in poly}), SetMin({c[2] : c \in poly}),
      SetMax({c[1] + 1 : c \in poly}), SetMax({c[2] + 1 : c \in poly})>>

\* iterate_tiles of naturalforest/download_naturalforest.py, one step of the generator from position t:
\* "start" runs the checks before the loops, "rows" the outer while test,
\* "cols" the inner while test and one pass of its body.
iterate_tiles_nf(t) ==
    LET b == get_bounds_from_polygon_nf(polygon)
        min_lon == b[1]
        min_lat == b[2]
        max_lon == b[3]
        max_lat == b[4]
        ref_lat == (min_lat + max_lat) \div 2
        tile_width_deg == km_to_deg_lon_nf(tile_width_km, ref_lat)
        tile_height_deg == km_to_deg_lat_nf(tile_height_km)
        overlap_lon_deg == km_to_deg_lon_nf(overlap_km, ref_lat)
        overlap_lat_deg == km_to_deg_lat_nf(overlap_km)
        step_lon == tile_width_deg - overlap_lon_deg
        step_lat == tile_height_deg - overlap_lat_deg
    IN  CASE t.pc = "start" ->
               IF tile_width_deg <= 0 \/ tile_height_deg <= 0
               THEN [t EXCEPT !.pc = "ValueError"]
               ELSE IF step_lon <= 0 \/ step_lat <= 0
               THEN [t EXCEPT !.pc = "ValueError"]
               ELSE [t EXCEPT !.pc = "rows", !.row = 0, !.lat_start = min_lat]
          [] t.pc = "rows" ->
               IF t.lat_start < max_lat
               THEN [t EXCEPT !.pc = "cols", !.col = 0, !.lon_start = min_lon]
               ELSE [t EXCEPT !.pc = "done"]
          [] t.pc = "cols" ->
               IF t.lon_start < max_lon
               THEN LET lat_end == Min(t.lat_start + tile_height_deg, max_lat)
                        lon_end == Min(t.lon_start + tile_width_deg, max_lon)
                        rect == <<t.lon_start, t.lat_start, lon_end, lat_end>>
                        tile_region == intersection(rect, polygon)
                    IN  [t EXCEPT
                           !.out = IF area(tile_region) > 0
                                   THEN Append(@, [row |-> t.row, col |-> t.col, rect |-> rect,
                                                 region |-> tile_region])
                                   ELSE @,
                           !.lon_start = @ + step_lon,
                           !.col = @ + 1]
               ELSE [t EXCEPT !.pc = "rows",
                              !.lat_start = @ + step_lat,
                              !.row = @ + 1]
          [] OTHER -> t

----------------------------------------------------------------------------
(* split_bbox_by_km: the four copies *)

\* meters_per_degree of data/download_gee_s2_cloudfree_composite.py: metres per unit of latitude and of longitude
meters_per_degree_cf(mean_lat) ==
    <<MetersPerUnit, MetersPerUnit \div SecLat(mean_lat)>>

\* bbox_from_coords of data/download_gee_s2_cloudfree_composite.py: (min_lon, min_lat, max_lon, max_lat)
bbox_from_coords_cf(coords) ==
    <<SetMin({c[1] : c \in coords}), SetMin({c[2] : c \in coords}),
      SetMax({c[1] + 1 : c \in coords}), SetMax({c[2] + 1 : c \in coords})>>

\* split_bbox_by_km of data/download_gee_s2_cloudfree_composite.py, one step from position t: "start" runs the
\* check before the loops, "rows" the outer while test, "cols" the inner
\* while test and one pass of its body.
split_bbox_by_km_cf(t) ==
    LET bbox == bbox_from_coords_cf(polygon)
        lon_min == bbox[1]
        lat_min == bbox[2]
        lon_max == bbox[3]
        lat_max == bbox[4]
        mean_lat == (lat_min + lat_max) \div 2
        m_per_deg_lat == meters_per_degree_cf(mean_lat)[1]
        m_per_deg_lon == meters_per_degree_cf(mean_lat)[2]
        tile_w_deg == (tile_width_km * 1000) \div m_per_deg_lon
        tile_h_deg == (tile_height_km * 1000) \div m_per_deg_lat
        overlap_deg_lon == (overlap_km * 1000) \div m_per_deg_lon
        overlap_deg_lat == (overlap_km * 1000) \div m_per_deg_lat
        step_lon_deg == tile_w_deg - overlap_deg_lon
        step_lat_deg == tile_h_deg - overlap_deg_lat
    IN  CASE t.pc = "start" ->
               IF tile_width_km <= overlap_km \/ tile_height_km <= overlap_km
               THEN [t EXCEPT !.pc = "ValueError"]
               ELSE [t EXCEPT !.pc = "rows", !.r = 0, !.lat_top = lat_max]
          [] t.pc = "rows" ->
               IF t.lat_top > lat_min
               THEN [t EXCEPT !.pc = "cols", !.c = 0, !.lon_left = lon_min]
               ELSE [t EXCEPT !.pc = "done"]
          [] t.pc = "cols" ->
               IF t.lon_left < lon_max
               THEN LET lat_bottom == Max(t.lat_top - tile_h_deg, lat_min)
                        lon_right == Min(t.lon_left + tile_w_deg, lon_max)
                    IN  [t EXCEPT
                           !.out = Append(@, [row |-> t.r, col |-> t.c,
                                              rect |-> <<t.lon_left, lat_bottom,
                                                         lon_right, t.lat_top>>]),
                           !.c = @ + 1,
                           !.lon_left = @ + step_lon_deg]
               ELSE [t EXCEPT !.pc = "rows",
                              !.r = @ + 1,
                              !.lat_top = @ - step_lat_deg]
          [] OTHER -> t

\* Mutant: the two values returned in the other order.
meters_per_degree_s2_Swapped(mean_lat) ==
    <<MetersPerUnit \div SecLat(mean_lat), MetersPerUnit>>

\* meters_per_degree of data/download_gee_s2.py: metres per unit of latitude and of longitude
meters_per_degree_s2(mean_lat) ==
    <<MetersPerUnit, MetersPerUnit \div SecLat(mean_lat)>>

\* bbox_from_coords of data/download_gee_s2.py: (min_lon, min_lat, max_lon, max_lat)
bbox_from_coords_s2(coords) ==
    <<SetMin({c[1] : c \in coords}), SetMin({c[2] : c \in coords}),
      SetMax({c[1] + 1 : c \in coords}), SetMax({c[2] + 1 : c \in coords})>>

\* split_bbox_by_km of data/download_gee_s2.py, one step from position t: "start" runs the
\* check before the loops, "rows" the outer while test, "cols" the inner
\* while test and one pass of its body.
split_bbox_by_km_s2(t) ==
    LET bbox == bbox_from_coords_s2(polygon)
        lon_min == bbox[1]
        lat_min == bbox[2]
        lon_max == bbox[3]
        lat_max == bbox[4]
        mean_lat == (lat_min + lat_max) \div 2
        m_per_deg_lat == meters_per_degree_s2(mean_lat)[1]
        m_per_deg_lon == meters_per_degree_s2(mean_lat)[2]
        tile_w_deg == (tile_width_km * 1000) \div m_per_deg_lon
        tile_h_deg == (tile_height_km * 1000) \div m_per_deg_lat
        overlap_deg_lon == (overlap_km * 1000) \div m_per_deg_lon
        overlap_deg_lat == (overlap_km * 1000) \div m_per_deg_lat
        step_lon_deg == tile_w_deg - overlap_deg_lon
        step_lat_deg == tile_h_deg - overlap_deg_lat
    IN  CASE t.pc = "start" ->
               IF tile_width_km <= overlap_km \/ tile_height_km <= overlap_km
               THEN [t EXCEPT !.pc = "ValueError"]
               ELSE [t EXCEPT !.pc = "rows", !.r = 0, !.lat_top = lat_max]
          [] t.pc = "rows" ->
               IF t.lat_top > lat_min
               THEN [t EXCEPT !.pc = "cols", !.c = 0, !.lon_left = lon_min]
               ELSE [t EXCEPT !.pc = "done"]
          [] t.pc = "cols" ->
               IF t.lon_left < lon_max
               THEN LET lat_bottom == Max(t.lat_top - tile_h_deg, lat_min)
                        lon_right == Min(t.lon_left + tile_w_deg, lon_max)
                    IN  [t EXCEPT
                           !.out = Append(@, [row |-> t.r, col |-> t.c,
                                              rect |-> <<t.lon_left, lat_bottom,
                                                         lon_right, t.lat_top>>]),
                           !.c = @ + 1,
                           !.lon_left = @ + step_lon_deg]
               ELSE [t EXCEPT !.pc = "rows",
                              !.r = @ + 1,
                              !.lat_top = @ - step_lat_deg]
          [] OTHER -> t

\* meters_per_degree of data/check_download_gee_s2_composite.py: metres per unit of latitude and of longitude
meters_per_degree_s2chk(mean_lat) ==
    <<MetersPerUnit, MetersPerUnit \div SecLat(mean_lat)>>

\* bbox_from_coords of data/check_download_gee_s2_composite.py: (min_lon, min_lat, max_lon, max_lat)
bbox_from_coords_s2chk(coords) ==
    <<SetMin({c[1] : c \in coords}), SetMin({c[2] : c \in coords}),
      SetMax({c[1] + 1 : c \in coords}), SetMax({c[2] + 1 : c \in coords})>>

\* Mutant: the row counter is not advanced at the end of a row (r += 1
\* dropped), the rest as in the copies.
split_bbox_by_km_s2chk_SameRow(t) ==
    LET n == split_bbox_by_km_cf(t)
    IN  IF t.pc = "cols" /\ n.pc = "rows" THEN [n EXCEPT !.r = t.r] ELSE n

\* split_bbox_by_km of data/check_download_gee_s2_composite.py, one step from position t: "start" runs the
\* check before the loops, "rows" the outer while test, "cols" the inner
\* while test and one pass of its body.
split_bbox_by_km_s2chk(t) ==
    LET bbox == bbox_from_coords_s2chk(polygon)
        lon_min == bbox[1]
        lat_min == bbox[2]
        lon_max == bbox[3]
        lat_max == bbox[4]
        mean_lat == (lat_min + lat_max) \div 2
        m_per_deg_lat == meters_per_degree_s2chk(mean_lat)[1]
        m_per_deg_lon == meters_per_degree_s2chk(mean_lat)[2]
        tile_w_deg == (tile_width_km * 1000) \div m_per_deg_lon
        tile_h_deg == (tile_height_km * 1000) \div m_per_deg_lat
        overlap_deg_lon == (overlap_km * 1000) \div m_per_deg_lon
        overlap_deg_lat == (overlap_km * 1000) \div m_per_deg_lat
        step_lon_deg == tile_w_deg - overlap_deg_lon
        step_lat_deg == tile_h_deg - overlap_deg_lat
    IN  CASE t.pc = "start" ->
               IF tile_width_km <= overlap_km \/ tile_height_km <= overlap_km
               THEN [t EXCEPT !.pc = "ValueError"]
               ELSE [t EXCEPT !.pc = "rows", !.r = 0, !.lat_top = lat_max]
          [] t.pc = "rows" ->
               IF t.lat_top > lat_min
               THEN [t EXCEPT !.pc = "cols", !.c = 0, !.lon_left = lon_min]
               ELSE [t EXCEPT !.pc = "done"]
          [] t.pc = "cols" ->
               IF t.lon_left < lon_max
               THEN LET lat_bottom == Max(t.lat_top - tile_h_deg, lat_min)
                        lon_right == Min(t.lon_left + tile_w_deg, lon_max)
                    IN  [t EXCEPT
                           !.out = Append(@, [row |-> t.r, col |-> t.c,
                                              rect |-> <<t.lon_left, lat_bottom,
                                                         lon_right, t.lat_top>>]),
                           !.c = @ + 1,
                           !.lon_left = @ + step_lon_deg]
               ELSE [t EXCEPT !.pc = "rows",
                              !.r = @ + 1,
                              !.lat_top = @ - step_lat_deg]
          [] OTHER -> t

\* meters_per_degree of data/download_missing_gee_s2_composite.py: metres per unit of latitude and of longitude
meters_per_degree_miss(mean_lat) ==
    <<MetersPerUnit, MetersPerUnit \div SecLat(mean_lat)>>

\* bbox_from_coords of data/download_missing_gee_s2_composite.py: (min_lon, min_lat, max_lon, max_lat)
bbox_from_coords_miss(coords) ==
    <<SetMin({c[1] : c \in coords}), SetMin({c[2] : c \in coords}),
      SetMax({c[1] + 1 : c \in coords}), SetMax({c[2] + 1 : c \in coords})>>

\* Mutant: the exists() test of main folded into the tiler, which then
\* passes over a tile whose file is on disk.
split_bbox_by_km_miss_SkipPresent(t) ==
    LET n == split_bbox_by_km_cf(t)
    IN  IF t.pc = "cols" /\ n.pc = "cols" /\ <<t.r, t.c>> \in disk
        THEN [n EXCEPT !.out = t.out]
        ELSE n

\* Mutant: the loops entered without the comparison of tile size and
\* overlap.
split_bbox_by_km_miss_NoGuard(t) ==
    IF t.pc = "start"
    THEN [t EXCEPT !.pc = "rows", !.r = 0,
                   !.lat_top = bbox_from_coords_miss(polygon)[4]]
    ELSE split_bbox_by_km_cf(t)

\* split_bbox_by_km of data/download_missing_gee_s2_composite.py, one step from position t: "start" runs the
\* check before the loops, "rows" the outer while test, "cols" the inner
\* while test and one pass of its body.
split_bbox_by_km_miss(t) ==
    LET bbox == bbox_from_coords_miss(polygon)
        lon_min == bbox[1]
        lat_min == bbox[2]
        lon_max == bbox[3]
        lat_max == bbox[4]
        mean_lat == (lat_min + lat_max) \div 2
        m_per_deg_lat == meters_per_degree_miss(mean_lat)[1]
        m_per_deg_lon == meters_per_degree_miss(mean_lat)[2]
        tile_w_deg == (tile_width_km * 1000) \div m_per_deg_lon
        tile_h_deg == (tile_height_km * 1000) \div m_per_deg_lat
        overlap_deg_lon == (overlap_km * 1000) \div m_per_deg_lon
        overlap_deg_lat == (overlap_km * 1000) \div m_per_deg_lat
        step_lon_deg == tile_w_deg - overlap_deg_lon
        step_lat_deg == tile_h_deg - overlap_deg_lat
    IN  CASE t.pc = "start" ->
               IF tile_width_km <= overlap_km \/ tile_height_km <= overlap_km
               THEN [t EXCEPT !.pc = "ValueError"]
               ELSE [t EXCEPT !.pc = "rows", !.r = 0, !.lat_top = lat_max]
          [] t.pc = "rows" ->
               IF t.lat_top > lat_min
               THEN [t EXCEPT !.pc = "cols", !.c = 0, !.lon_left = lon_min]
               ELSE [t EXCEPT !.pc = "done"]
          [] t.pc = "cols" ->
               IF t.lon_left < lon_max
               THEN LET lat_bottom == Max(t.lat_top - tile_h_deg, lat_min)
                        lon_right == Min(t.lon_left + tile_w_deg, lon_max)
                    IN  [t EXCEPT
                           !.out = Append(@, [row |-> t.r, col |-> t.c,
                                              rect |-> <<t.lon_left, lat_bottom,
                                                         lon_right, t.lat_top>>]),
                           !.c = @ + 1,
                           !.lon_left = @ + step_lon_deg]
               ELSE [t EXCEPT !.pc = "rows",
                              !.r = @ + 1,
                              !.lat_top = @ - step_lat_deg]
          [] OTHER -> t

----------------------------------------------------------------------------
(* The parts of the state a specification leaves aside *)

NoTiler ==
    /\ polygon = {}
    /\ tile_width_km = 0 /\ tile_height_km = 0 /\ overlap_km = 0
    /\ script = "none"
    /\ tiler = [pc |-> "idle", out |-> <<>>]

NoCalls == disk = {} /\ calls = <<>>

NoNames ==
    /\ output = [parent |-> "", stem |-> "", suffix |-> ""]
    /\ indices = <<0, 0>>
    /\ derived = [script |-> "none", path |-> ""]

NoJob ==
    [script |-> "none", pc |-> "idle", listed |-> FALSE, total |-> 0,
     missing |-> <<>>, progress |-> <<>>]

NoFiles ==
    /\ provider = "ok"
    /\ dirExists = FALSE /\ files = {} /\ partial = {}
    /\ job = NoJob
    /\ dirAtStart = FALSE /\ filesAtStart = {}
    /\ events = <<>>

\* rasterio.transform.from_origin(west, north, xsize, ysize)
from_origin(west, north, xsize, ysize) ==
    [west |-> west, north |-> north, a |-> xsize, e |-> 0 - ysize]

\* parse_args of mosaic_alphaearth_tiles.py: no switch given
NoFlags ==
    [clean_tiles |-> FALSE, skip_errors |-> FALSE, keep_vrt |-> FALSE,
     overwrite |-> FALSE]

NoMosaic ==
    /\ tile_paths = <<>>
    /\ max_tile_mb = 0
    /\ start_tile = 1
    /\ flags = NoFlags
    /\ mosaic = [script |-> "none", pc |-> "idle", exists |-> FALSE,
                 width |-> 0, height |-> 0,
                 transform |-> from_origin(0, 0, 1, 1), nodata |-> 0,
                 raster |-> <<>>, processed |-> 0]

----------------------------------------------------------------------------
(* One tiler call, step by step *)

IterateScripts ==
    {"download_alphaearth_embeddings", "check_alphaearth_tiles",
     "download_naturalforest"}

SplitScripts ==
    {"download_gee_s2_cloudfree_composite", "download_gee_s2",
     "check_download_gee_s2_composite", "download_missing_gee_s2_composite"}

TilerScripts == IterateScripts \cup SplitScripts

\* The generator before its first step.
StartOf(s) ==
    IF s \in IterateScripts
    THEN [pc |-> "start", row |-> 0, col |-> 0, lat_start |-> 0,
          lon_start |-> 0, out |-> <<>>]
    ELSE [pc |-> "start", r |-> 0, c |-> 0, lat_top |-> 0, lon_left |-> 0,
          out |-> <<>>]

Running(t) == t.pc \in {"start", "rows", "cols"}

\* The tiler the script s defines (download_missing_alphaearth_tiles and
\* mosaic_naturalforest import theirs from the download scripts).
TilerOf(s, t) ==
    CASE s = "download_alphaearth_embeddings" -> iterate_tiles_ae(t)
      [] s = "check_alphaearth_tiles" -> iterate_tiles_chk(t)
      [] s = "download_naturalforest" -> iterate_tiles_nf(t)
      [] s = "download_gee_s2_cloudfree_composite" -> split_bbox_by_km_cf(t)
      [] s = "download_gee_s2" -> split_bbox_by_km_s2(t)
      [] s = "check_download_gee_s2_composite" -> split_bbox_by_km_s2chk(t)
      [] s = "download_missing_gee_s2_composite" -> split_bbox_by_km_miss(t)

TilerInit ==
    /\ polygon \in Polygons
    /\ tile_width_km \in 0 .. MaxTileKm
    /\ tile_height_km \in 0 .. MaxTileKm
    /\ overlap_km \in -1 .. MaxOverlapKm
    /\ script \in TilerScripts
    /\ tiler = StartOf(script)
    /\ NoCalls
    /\ NoNames
    /\ NoFiles
    /\ NoMosaic

Step_download_alphaearth_embeddings ==
    /\ script = "download_alphaearth_embeddings"
    /\ Running(tiler)
    /\ tiler' = iterate_tiles_ae(tiler)
    /\ UNCHANGED <<tilerIn, script, callVars, nameVars, fileVars, mosaicVars>>

Step_check_alphaearth_tiles ==
    /\ script = "check_alphaearth_tiles"
    /\ Running(tiler)
    /\ tiler' = iterate_tiles_chk(tiler)
    /\ UNCHANGED <<tilerIn, script, callVars, nameVars, fileVars, mosaicVars>>

Step_download_naturalforest ==
    /\ script = "download_naturalforest"
    /\ Running(tiler)
    /\ tiler' = iterate_tiles_nf(tiler)
    /\ UNCHANGED <<tilerIn, script, callVars, nameVars, fileVars, mosaicVars>>

Step_download_gee_s2_cloudfree_composite ==
    /\ script = "download_gee_s2_cloudfree_composite"
    /\ Running(tiler)
    /\ tiler' = split_bbox_by_km_cf(tiler)
    /\ UNCHANGED <<tilerIn, script, callVars, nameVars, fileVars, mosaicVars>>

Step_download_gee_s2 ==
    /\ script = "download_gee_s2"
    /\ Running(tiler)
    /\ tiler' = split_bbox_by_km_s2(tiler)
    /\ UNCHANGED <<tilerIn, script, callVars, nameVars, fileVars, mosaicVars>>

Step_check_download_gee_s2_composite ==
    /\ script = "check_download_gee_s2_composite"
    /\ Running(tiler)
    /\ tiler' = split_bbox_by_km_s2chk(tiler)
    /\ UNCHANGED <<tilerIn, script, callVars, nameVars, fileVars, mosaicVars>>

Step_download_missing_gee_s2_composite ==
    /\ script = "download_missing_gee_s2_composite"
    /\ Running(tiler)
    /\ tiler' = split_bbox_by_km_miss(tiler)
    /\ UNCHANGED <<tilerIn, script, callVars, nameVars, fileVars, mosaicVars>>

TilerNext ==
    \/ Step_download_alphaearth_embeddings
    \/ Step_check_alphaearth_tiles
    \/ Step_download_naturalforest
    \/ Step_download_gee_s2_cloudfree_composite
    \/ Step_download_gee_s2
    \/ Step_check_download_gee_s2_composite
    \/ Step_download_missing_gee_s2_composite

\* A script is one sequential process: a started call keeps running.
TilerSpec == TilerInit /\ [][TilerNext]_vars /\ WF_vars(TilerNext)

Spec == TilerSpec

----------------------------------------------------------------------------
(* Claims about one tiler call *)

\* TileSpec: width > 0, height > 0, 0 <= overlap < min(width, height)
ValidTileSpec ==
    /\ tile_width_km > 0
    /\ tile_height_km > 0
    /\ 0 <= overlap_km
    /\ overlap_km < Min(tile_width_km, tile_height_km)

\* The AOI bounding box has positive area.
PositiveAreaAOI ==
    /\ polygon # {}
    /\ SetMax({c[1] + 1 : c \in polygon}) > SetMin({c[1] : c \in polygon})
    /\ SetMax({c[2] + 1 : c \in polygon}) > SetMin({c[2] : c \in polygon})

\* Cells of the AOI polygon inside the rectangle rect.
CellsInside(rect) ==
    {c \in polygon : /\ rect[1] <= c[1] /\ c[1] + 1 <= rect[3]
                     /\ rect[2] <= c[2] /\ c[2] + 1 <= rect[4]}

\* (row, col) of a before (row, col) of b, lexicographically
Before(a, b) == a.row < b.row \/ (a.row = b.row /\ a.col < b.col)

\* C1: for a valid tile spec and an AOI of positive area, every tiler copy
\* finishes its loops and has yielded at least one tile.
C1_TerminatesWithATile ==
    (ValidTileSpec /\ PositiveAreaAOI)
        ~> (tiler.pc = "done" /\ Len(tiler.out) >= 1)

\* A call on a valid spec that went through several rows and columns.
C1_Witness ==
    /\ ValidTileSpec /\ PositiveAreaAOI
    /\ tiler.pc = "done"
    /\ \E i, j \in 1 .. Len(tiler.out) :
          tiler.out[i].row > 0 /\ tiler.out[j].col > 0

C3_AscendingUniqueIndex ==
    \A i, j \in 1 .. Len(tiler.out) :
        i < j => Before(tiler.out[i], tiler.out[j])

\* A finished call with tiles in two rows and two columns.
C3_Witness ==
    /\ tiler.pc = "done"
    /\ \E i, j \in 1 .. Len(tiler.out) :
          /\ tiler.out[i].row = 0 /\ tiler.out[i].col = 1
          /\ tiler.out[j].row = 1 /\ tiler.out[j].col = 0

\* C16: with an overlap as large as the tile width or the tile height, every
\* tiler copy stops at its check with a configuration error: it yields no
\* tile and never reaches its loops.
C16_OverlapTooLargeRefused ==
    (overlap_km >= tile_width_km \/ overlap_km >= tile_height_km) =>
        /\ tiler.pc \in {"start", "ValueError"}
        /\ tiler.out = <<>>

\* split_bbox_by_km of download_missing_gee_s2_composite has refused tiles of
\* positive size with an overlap of a whole tile height.
C16_Witness ==
    /\ script = "download_missing_gee_s2_composite"
    /\ tile_width_km > overlap_km
    /\ tile_height_km > 0
    /\ overlap_km = tile_height_km
    /\ tiler.pc = "ValueError"
    /\ tiler.out = <<>>

\* C17 as stated: with a tile width or height of zero or less, every tiler
\* copy stops with a configuration error and yields no tile, whatever the
\* overlap.
C17_NonPositiveSizeRefused ==
    (tile_width_km <= 0 \/ tile_height_km <= 0) =>
        /\ tiler.pc \in {"start", "ValueError"}
        /\ tiler.out = <<>>

\* C17 for the copies of iterate_tiles alone: with a tile width or height of
\* zero or less they stop with a configuration error and yield no tile,
\* whatever the overlap.
C17_IterateTilesRefuses ==
    (script \in IterateScripts
        /\ (tile_width_km <= 0 \/ tile_height_km <= 0)) =>
        /\ tiler.pc \in {"start", "ValueError"}
        /\ tiler.out = <<>>

\* iterate_tiles has refused a tile width of zero given with a negative
\* overlap.
C17_Witness ==
    /\ script \in IterateScripts
    /\ tile_width_km = 0
    /\ overlap_km < 0
    /\ tiler.pc = "ValueError"

\* The AOI bounding box, and the tile size, overlap and step in units of
\* angle along each axis.
BoxMinX == SetMin({c[1] : c \in polygon})
BoxMinY == SetMin({c[2] : c \in polygon})
BoxMaxX == SetMax({c[1] + 1 : c \in polygon})
BoxMaxY == SetMax({c[2] + 1 : c \in polygon})
LonPerKm == SecLat((BoxMinY + BoxMaxY) \div 2)
TileW == tile_width_km * LonPerKm
TileH == tile_height_km
OverlapW == overlap_km * LonPerKm
OverlapH == overlap_km

\* The smaller of a tile size and the room left up to the far edge.
Clipped(size, room) == IF size <= room THEN size ELSE room

\* Tile j is the next after tile i in its row; tile j is the tile under or
\* over tile i in the next row.
NextInRow(i, j) ==
    /\ tiler.out[j].row = tiler.out[i].row
    /\ tiler.out[j].col = tiler.out[i].col + 1
NextRow(i, j) ==
    /\ tiler.out[j].col = tiler.out[i].col
    /\ tiler.out[j].row = tiler.out[i].row + 1

CellsToCover ==
    IF script \in IterateScripts
    THEN polygon
    ELSE (BoxMinX .. BoxMaxX - 1) \X (BoxMinY .. BoxMaxY - 1)

C28_NoTileInsideItsPredecessor ==
    ValidTileSpec =>
        \A i, j \in 1 .. Len(tiler.out) :
            LET a == tiler.out[i].rect
                b == tiler.out[j].rect
            IN  /\ NextInRow(i, j) => b[3] > a[3]
                /\ NextRow(i, j) => IF script \in IterateScripts
                                    THEN b[4] > a[4]
                                    ELSE b[2] < a[2]

\* C28 without overlap: for a valid tile spec with overlap 0, every tile
\* ends beyond the end of the tile before it in its row, and every row ends
\* beyond the end of the row before it.
C28_NoRedundancyWithoutOverlap ==
    (ValidTileSpec /\ overlap_km = 0) =>
        \A i, j \in 1 .. Len(tiler.out) :
            LET a == tiler.out[i].rect
                b == tiler.out[j].rect
            IN  /\ NextInRow(i, j) => b[3] > a[3]
                /\ NextRow(i, j) => IF script \in IterateScripts
                                    THEN b[4] > a[4]
                                    ELSE b[2] < a[2]

\* A finished grid for a valid tile spec in which one tile follows, in its
\* row, a tile that already ended at the far edge of the bounding box, and
\* lies wholly inside it.
C28_Witness ==
    /\ ValidTileSpec
    /\ tiler.pc = "done"
    /\ \E i, j \in 1 .. Len(tiler.out) :
          LET a == tiler.out[i].rect
              b == tiler.out[j].rect
          IN  /\ NextInRow(i, j)
              /\ a[3] = BoxMaxX
              /\ a[1] <= b[1] /\ b[3] <= a[3]
              /\ a[2] <= b[2] /\ b[4] <= a[4]

----------------------------------------------------------------------------
(* Whole tiler calls, with downloads between them *)

\* More steps than any call of the model takes.
StepBudget == 2 + (MaxExtent + 1) * (2 * MaxExtent + 2)

RECURSIVE RunFrom(_, _, _)
RunFrom(s, t, budget) ==
    IF ~Running(t) \/ budget = 0
    THEN t
    ELSE RunFrom(s, TilerOf(s, t), budget - 1)

\* list(iterate_tiles(...)), list(split_bbox_by_km(...)): the call run to
\* its end.
list_tiles(s) == RunFrom(s, StartOf(s), StepBudget)

\* AOIs of the largest extent, whole and with the corner cut.
CallPolygons ==
    {Polygon(lat0, MaxExtent, MaxExtent, cut) : lat0 \in {0, LatBand}, cut \in {0, 1}}

\* Tile files a download may write between two calls: those of row 0.
DiskKeys == {0} \X (0 .. MaxDiskIdx)

CallsInit ==
    /\ polygon \in CallPolygons
    /\ tile_width_km \in 1 .. MaxTileKm
    /\ tile_height_km \in 1 .. MaxTileKm
    /\ overlap_km \in 0 .. MaxOverlapKm
    /\ script = "none"
    /\ tiler = [pc |-> "idle", out |-> <<>>]
    /\ NoCalls
    /\ NoNames
    /\ NoFiles
    /\ NoMosaic

\* One script computes its tile list (the claims compare calls two by two:
\* a first call and a later one).
CallTiler ==
    /\ Len(calls) < 2
    /\ \E s \in TilerScripts :
          LET t == list_tiles(s)
          IN  calls' = Append(calls, [script |-> s, pc |-> t.pc,
                                      out |-> t.out, disk |-> disk])
    /\ UNCHANGED <<tilerIn, tilerVars, disk, nameVars, fileVars, mosaicVars>>

\* A download writes one tile file (download_tile, geemap.ee_export_image).
DownloadTile ==
    /\ \E k \in DiskKeys \ disk : disk' = disk \cup {k}
    /\ UNCHANGED <<tilerIn, tilerVars, calls, nameVars, fileVars, mosaicVars>>

CallsNext == CallTiler \/ DownloadTile

CallsSpec == CallsInit /\ [][CallsNext]_vars

\* The (row, col, rectangle) sequence of a call's output.
Indexed(out) ==
    [k \in 1 .. Len(out) |-> <<out[k].row, out[k].col, out[k].rect>>]

SameFamily(s1, s2) ==
    \/ s1 \in IterateScripts /\ s2 \in IterateScripts
    \/ s1 \in SplitScripts /\ s2 \in SplitScripts

C5_CopiesAgree ==
    \A i, j \in 1 .. Len(calls) :
        SameFamily(calls[i].script, calls[j].script) =>
            /\ calls[i].pc = calls[j].pc
            /\ Indexed(calls[i].out) = Indexed(calls[j].out)

\* A checker's copy and a downloader's copy were both run and yielded tiles.
C5_Witness ==
    \E i, j \in 1 .. Len(calls) :
        /\ calls[i].script = "check_download_gee_s2_composite"
        /\ calls[j].script = "download_gee_s2"
        /\ Len(calls[j].out) >= 2

----------------------------------------------------------------------------
(* Tile file names *)

DigitChars == <<"0", "1", "2", "3", "4", "5", "6", "7", "8", "9">>

\* The decimal digits of n >= 0.
RECURSIVE Decimal(_)
Decimal(n) ==
    IF n < 10
    THEN DigitChars[n + 1]
    ELSE Decimal(n \div 10) \o DigitChars[(n % 10) + 1]

\* Mutant: the width dropped from the format ({row} for {row:02d}).
format_02d_NoWidth(n) == Decimal(n)

\* Python's format spec 02d on n >= 0: at least two digits, zero-filled.
format_02d(n) == IF n < 10 THEN "0" \o Decimal(n) ELSE Decimal(n)

\* Python's default formatting of an int n >= 0 in an f-string.
format_d(n) == Decimal(n)

\* pathlib's parent / name
JoinPath(parent, name) == parent \o "/" \o name

\* resolve_output_template of alphaearth/download_alphaearth_embeddings.py
\* (also the one download_missing_alphaearth_tiles.py calls)
resolve_output_template_ae(base) ==
    IF base.suffix # ""
    THEN [parent |-> base.parent, stem |-> base.stem, suffix |-> base.suffix]
    ELSE [parent |-> JoinPath(base.parent, base.stem), stem |-> "tile",
          suffix |-> ".tif"]

\* resolve_output_template of alphaearth/check_alphaearth_tiles.py
resolve_output_template_chk(base) ==
    IF base.suffix # ""
    THEN [parent |-> base.parent, stem |-> base.stem, suffix |-> base.suffix]
    ELSE [parent |-> JoinPath(base.parent, base.stem), stem |-> "tile",
          suffix |-> ".tif"]

\* resolve_output_template of naturalforest/download_naturalforest.py
resolve_output_template_nf(base) ==
    IF base.suffix # ""
    THEN [parent |-> base.parent, stem |-> base.stem, suffix |-> base.suffix]
    ELSE [parent |-> JoinPath(base.parent, base.stem), stem |-> "tile",
          suffix |-> ".tif"]

\* export_tiled_embeddings: parent / f"{stem}_r{row:02d}_c{col:02d}{suffix}"
tile_path_ae(parent, stem, suffix, row, col) ==
    JoinPath(parent, stem \o "_r" \o format_02d(row) \o "_c" \o format_02d(col)
                          \o suffix)

\* check_tiles: parent / f"{stem}_r{row:02d}_c{col:02d}{suffix}"
tile_path_chk(parent, stem, suffix, row, col) ==
    JoinPath(parent, stem \o "_r" \o format_02d(row) \o "_c" \o format_02d(col)
                          \o suffix)

\* list_missing_tiles: parent / f"{stem}_r{row:02d}_c{col:02d}{suffix}"
tile_path_missae(parent, stem, suffix, row, col) ==
    JoinPath(parent, stem \o "_r" \o format_02d(row) \o "_c" \o format_02d(col)
                          \o suffix)

\* export_tiled_natural_forest:
\* parent / f"{stem}_r{row:02d}_c{col:02d}{suffix}"
tile_path_nf(parent, stem, suffix, row, col) ==
    JoinPath(parent, stem \o "_r" \o format_02d(row) \o "_c" \o format_02d(col)
                          \o suffix)

\* download_gee_s2_cloudfree_composite main:
\* out_dir / f"{prefix}_{args.year}_{month_num:02d}_r{r}_c{c}.tif"
out_path_cf(out_dir, prefix, year, month_num, r, c) ==
    JoinPath(out_dir, prefix \o "_" \o format_d(year) \o "_"
                      \o format_02d(month_num) \o "_r" \o format_d(r)
                      \o "_c" \o format_d(c) \o ".tif")

\* download_gee_s2 main:
\* out_dir / f"{prefix}_{dt.year}_{dt.month:02d}_{dt.day:02d}_r{r}_c{c}.tif"
out_path_s2(out_dir, prefix, year, month, day, r, c) ==
    JoinPath(out_dir, prefix \o "_" \o format_d(year) \o "_"
                      \o format_02d(month) \o "_" \o format_02d(day)
                      \o "_r" \o format_d(r) \o "_c" \o format_d(c) \o ".tif")

\* check_download_gee_s2_composite main:
\* out_dir / f"{prefix}_{args.year}_{month_num:02d}_r{r}_c{c}{args.ext}"
fpath_s2chk(out_dir, prefix, year, month_num, r, c, ext) ==
    JoinPath(out_dir, prefix \o "_" \o format_d(year) \o "_"
                      \o format_02d(month_num) \o "_r" \o format_d(r)
                      \o "_c" \o format_d(c) \o ext)

\* download_missing_gee_s2_composite main:
\* out_dir / f"{prefix}_{args.year}_{month_num:02d}_r{r}_c{c}.tif"
fpath_miss(out_dir, prefix, year, month_num, r, c) ==
    JoinPath(out_dir, prefix \o "_" \o format_d(year) \o "_"
                      \o format_02d(month_num) \o "_r" \o format_d(r)
                      \o "_c" \o format_d(c) \o ".tif")

\* The command line of the Sentinel-2 scripts: --output-dir, --prefix,
\* --year, --month (october), --ext, and the day of --date.
OutputDir == "data/raw/gee/tiles"
Prefix == "s2_oct_2016"
Ext == ".tif"
Year == 2016
MonthNum == 10
Day == 11

\* --output of the AlphaEarth and natural-forest scripts: a file name with a
\* suffix (the default) or a bare directory.
OutputBases ==
    {[parent |-> "map/2017/alphaearth", stem |-> "brahmanbaria_alphaearth_2017",
      suffix |-> ".tif"],
     [parent |-> "map/2017", stem |-> "alphaearth", suffix |-> ""]}

PaddedScripts ==
    {"download_alphaearth_embeddings", "check_alphaearth_tiles",
     "download_missing_alphaearth_tiles", "download_naturalforest"}

MonthlyScripts ==
    {"download_gee_s2_cloudfree_composite", "check_download_gee_s2_composite",
     "download_missing_gee_s2_composite"}

NamingScripts == PaddedScripts \cup MonthlyScripts \cup {"download_gee_s2"}

\* The path the script s derives for tile ix = <<row, col>>.
PathOf(s, ix) ==
    LET ae == resolve_output_template_ae(output)
        chk == resolve_output_template_chk(output)
        nf == resolve_output_template_nf(output)
    IN  CASE s = "download_alphaearth_embeddings" ->
               tile_path_ae(ae.parent, ae.stem, ae.suffix, ix[1], ix[2])
          [] s = "check_alphaearth_tiles" ->
               tile_path_chk(chk.parent, chk.stem, chk.suffix, ix[1], ix[2])
          [] s = "download_missing_alphaearth_tiles" ->
               tile_path_missae(ae.parent, ae.stem, ae.suffix, ix[1], ix[2])
          [] s = "download_naturalforest" ->
               tile_path_nf(nf.parent, nf.stem, nf.suffix, ix[1], ix[2])
          [] s = "download_gee_s2_cloudfree_composite" ->
               out_path_cf(OutputDir, Prefix, Year, MonthNum, ix[1], ix[2])
          [] s = "download_gee_s2" ->
               out_path_s2(OutputDir, Prefix, Year, MonthNum, Day, ix[1], ix[2])
          [] s = "check_download_gee_s2_composite" ->
               fpath_s2chk(OutputDir, Prefix, Year, MonthNum, ix[1], ix[2], Ext)
          [] s = "download_missing_gee_s2_composite" ->
               fpath_miss(OutputDir, Prefix, Year, MonthNum, ix[1], ix[2])

NamesInit ==
    /\ NoTiler
    /\ NoCalls
    /\ output \in OutputBases
    /\ indices \in (0 .. MaxIndex) \X (0 .. MaxIndex)
    /\ derived = [script |-> "none", path |-> ""]
    /\ NoFiles
    /\ NoMosaic

\* The script s derives the path of the tile.
Derive(s) ==
    /\ derived.script = "none"
    /\ derived' = [script |-> s, path |-> PathOf(s, indices)]
    /\ UNCHANGED <<tilerIn, tilerVars, callVars, output, indices, fileVars, mosaicVars>>

Name_download_alphaearth_embeddings == Derive("download_alphaearth_embeddings")
Name_check_alphaearth_tiles == Derive("check_alphaearth_tiles")
Name_download_missing_alphaearth_tiles == Derive("download_missing_alphaearth_tiles")
Name_download_naturalforest == Derive("download_naturalforest")
Name_download_gee_s2_cloudfree_composite == Derive("download_gee_s2_cloudfree_composite")
Name_download_gee_s2 == Derive("download_gee_s2")
Name_check_download_gee_s2_composite == Derive("check_download_gee_s2_composite")
Name_download_missing_gee_s2_composite == Derive("download_missing_gee_s2_composite")

NamesNext ==
    \/ Name_download_alphaearth_embeddings
    \/ Name_check_alphaearth_tiles
    \/ Name_download_missing_alphaearth_tiles
    \/ Name_download_naturalforest
    \/ Name_download_gee_s2_cloudfree_composite
    \/ Name_download_gee_s2
    \/ Name_check_download_gee_s2_composite
    \/ Name_download_missing_gee_s2_composite

NamesSpec == NamesInit /\ [][NamesNext]_vars

\* n < 100 as exactly two digits
TwoDigits(n) == DigitChars[(n \div 10) + 1] \o DigitChars[(n % 10) + 1]

\* {stem}_r{row:02d}_c{col:02d}{suffix} in the directory dir
PaddedName(dir, stem, suffix, ix) ==
    dir \o "/" \o stem \o "_r" \o TwoDigits(ix[1]) \o "_c" \o TwoDigits(ix[2])
        \o suffix

\* {stem}_r{row}_c{col}{suffix} in the directory dir
PlainName(dir, stem, suffix, ix) ==
    dir \o "/" \o stem \o "_r" \o ToString(ix[1]) \o "_c" \o ToString(ix[2])
        \o suffix

\* The directory, stem and suffix of the script's names.
TemplateOf(s) ==
    IF s \in PaddedScripts
    THEN IF output.suffix # ""
         THEN <<output.parent, output.stem, output.suffix>>
         ELSE <<output.parent \o "/" \o output.stem, "tile", ".tif">>
    ELSE IF s \in MonthlyScripts
    THEN <<OutputDir, Prefix \o "_2016_10", ".tif">>
    ELSE <<OutputDir, Prefix \o "_2016_10_11", ".tif">>

OtherIndices == ((0 .. MaxIndex) \X (0 .. MaxIndex)) \ {indices}

----------------------------------------------------------------------------
(* Checking a tile directory and downloading what is missing *)

ReconcileScripts ==
    {"check_alphaearth_tiles", "check_download_gee_s2_composite",
     "download_missing_alphaearth_tiles", "download_missing_gee_s2_composite"}

Checkers == {"check_alphaearth_tiles", "check_download_gee_s2_composite"}

\* The script whose tiler the script s calls
\* (download_missing_alphaearth_tiles imports the downloader's).
TilerFor(s) ==
    IF s = "download_missing_alphaearth_tiles"
    THEN "download_alphaearth_embeddings"
    ELSE s

\* Mutant: the directory is not created.
mkdir_chk_Dropped(exists) == exists

\* check_tiles: parent.mkdir(parents=True, exist_ok=True)
mkdir_chk(exists) == TRUE

\* download_missing_tiles: parent.mkdir(parents=True, exist_ok=True)
mkdir_missae(exists) == TRUE

\* download_tile: out_path.parent.mkdir(parents=True, exist_ok=True)
mkdir_miss(exists) == TRUE

\* check_tiles: the loop over iterate_tiles collecting the absent tile_path
missing_chk(tiles, present) ==
    LET tagged == [k \in 1 .. Len(tiles) |->
                     [row |-> tiles[k].row, col |-> tiles[k].col,
                      path |-> PathOf("check_alphaearth_tiles",
                                      <<tiles[k].row, tiles[k].col>>)]]
        absent(m) == m.path \notin present
    IN  SelectSeq(tagged, absent)

\* check_download_gee_s2_composite main: the loop collecting the absent fpath
missing_s2chk(tiles, present) ==
    LET tagged == [k \in 1 .. Len(tiles) |->
                     [row |-> tiles[k].row, col |-> tiles[k].col,
                      path |-> PathOf("check_download_gee_s2_composite",
                                      <<tiles[k].row, tiles[k].col>>)]]
        absent(m) == m.path \notin present
    IN  SelectSeq(tagged, absent)

\* Mutant: every tile is listed, its file present or not.
list_missing_tiles_All(tiles, present) ==
    [k \in 1 .. Len(tiles) |->
        [row |-> tiles[k].row, col |-> tiles[k].col,
         path |-> PathOf("download_missing_alphaearth_tiles",
                         <<tiles[k].row, tiles[k].col>>)]]

\* list_missing_tiles of download_missing_alphaearth_tiles.py
list_missing_tiles(tiles, present) ==
    LET tagged == [k \in 1 .. Len(tiles) |->
                     [row |-> tiles[k].row, col |-> tiles[k].col,
                      path |-> PathOf("download_missing_alphaearth_tiles",
                                      <<tiles[k].row, tiles[k].col>>)]]
        absent(m) == m.path \notin present
    IN  SelectSeq(tagged, absent)

\* Mutant: the test of the loop inverted (the present tiles are collected).
missing_miss_Present(tiles, present) ==
    LET tagged == [k \in 1 .. Len(tiles) |->
                     [row |-> tiles[k].row, col |-> tiles[k].col,
                      path |-> PathOf("download_missing_gee_s2_composite",
                                      <<tiles[k].row, tiles[k].col>>)]]
        there(m) == m.path \in present
    IN  SelectSeq(tagged, there)

\* download_missing_gee_s2_composite main: the loop collecting the absent
\* (bbox, fpath, r, c)
missing_miss(tiles, present) ==
    LET tagged == [k \in 1 .. Len(tiles) |->
                     [row |-> tiles[k].row, col |-> tiles[k].col,
                      path |-> PathOf("download_missing_gee_s2_composite",
                                      <<tiles[k].row, tiles[k].col>>)]]
        absent(m) == m.path \notin present
    IN  SelectSeq(tagged, absent)

\* Tiles whose file a directory may hold when a run starts.
GridIndices == {<<0, 0>>, <<0, 1>>, <<1, 0>>, <<1, 1>>}

ReconcileInit ==
    /\ polygon \in {Polygon(0, MaxExtent, MaxExtent, cut) : cut \in {0, 1}}
    /\ tile_width_km \in {0, MaxTileKm}
    /\ tile_height_km = MaxTileKm
    /\ overlap_km = 0
    /\ script = "none"
    /\ tiler = [pc |-> "idle", out |-> <<>>]
    /\ NoCalls
    /\ output \in OutputBases
    /\ indices = <<0, 0>>
    /\ derived = [script |-> "none", path |-> ""]
    /\ provider \in {"ok", "empty", "down"}
    /\ \E s \in ReconcileScripts :
          /\ job = [NoJob EXCEPT !.script = s, !.pc = "start"]
          /\ dirExists \in BOOLEAN
          /\ files \in IF dirExists
                       THEN SUBSET {PathOf(s, ix) : ix \in GridIndices}
                       ELSE {{}}
    /\ partial = {}
    /\ dirAtStart = dirExists
    /\ filesAtStart = files
    /\ events = <<>>
    /\ NoMosaic

\* check_tiles of check_alphaearth_tiles.py, the whole run.  The tiler is a
\* generator: its ValueError comes at the loop, after the mkdir.
Run_check_alphaearth_tiles ==
    /\ job.script = "check_alphaearth_tiles"
    /\ job.pc = "start"
    /\ IF provider = "down"
       THEN /\ job' = [job EXCEPT !.pc = "EEException"]
            /\ UNCHANGED dirExists
       ELSE LET t == list_tiles("check_alphaearth_tiles")
            IN  /\ dirExists' = mkdir_chk(dirExists)
                /\ job' = IF t.pc = "ValueError"
                          THEN [job EXCEPT !.pc = "ValueError"]
                          ELSE [job EXCEPT !.pc = "done", !.listed = TRUE,
                                           !.total = Len(t.out),
                                           !.missing = missing_chk(t.out, files)]
    /\ UNCHANGED <<tilerIn, tilerVars, callVars, nameVars, provider, files,
                   partial, histVars, mosaicVars>>

\* main of check_download_gee_s2_composite.py, the whole run.
Run_check_download_gee_s2_composite ==
    /\ job.script = "check_download_gee_s2_composite"
    /\ job.pc = "start"
    /\ LET t == list_tiles("check_download_gee_s2_composite")
       IN  job' = IF t.pc = "ValueError"
                  THEN [job EXCEPT !.pc = "ValueError"]
                  ELSE [job EXCEPT !.pc = "done", !.listed = TRUE,
                                   !.total = Len(t.out),
                                   !.missing = missing_s2chk(t.out, files)]
    /\ UNCHANGED <<tilerIn, tilerVars, callVars, nameVars, provider, diskVars,
                   histVars, mosaicVars>>

\* download_missing_tiles of download_missing_alphaearth_tiles.py up to its
\* export loop: Earth Engine, the image, the mkdir, the missing list.
List_download_missing_alphaearth_tiles ==
    /\ job.script = "download_missing_alphaearth_tiles"
    /\ job.pc = "start"
    /\ IF provider # "ok"
       THEN /\ job' = [job EXCEPT !.pc = IF provider = "down"
                                         THEN "EEException"
                                         ELSE "RuntimeError"]
            /\ UNCHANGED dirExists
       ELSE LET t == list_tiles(TilerFor("download_missing_alphaearth_tiles"))
                missing_tiles == list_missing_tiles(t.out, files)
            IN  /\ dirExists' = mkdir_missae(dirExists)
                /\ job' = IF t.pc = "ValueError"
                          THEN [job EXCEPT !.pc = "ValueError"]
                          ELSE [job EXCEPT !.pc = IF missing_tiles = <<>>
                                                  THEN "done"
                                                  ELSE "downloading",
                                           !.listed = TRUE,
                                           !.total = Len(t.out),
                                           !.missing = missing_tiles]
    /\ UNCHANGED <<tilerIn, tilerVars, callVars, nameVars, provider, files,
                   partial, histVars, mosaicVars>>

\* One round of the export loop of download_missing_tiles:
\* geemap.ee_export_image writes the file, or reports its error and returns.
Export_download_missing_alphaearth_tiles ==
    /\ job.script = "download_missing_alphaearth_tiles"
    /\ job.pc = "downloading"
    /\ LET idx == Len(job.progress) + 1
           total == Len(job.missing)
           tile == job.missing[idx]
       IN  /\ job' = [job EXCEPT
                        !.progress = Append(@, [idx |-> idx, total |-> total,
                                                row |-> tile.row,
                                                col |-> tile.col,
                                                path |-> tile.path]),
                        !.pc = IF idx = total THEN "done" ELSE "downloading"]
           /\ \E exported \in BOOLEAN :
                 files' = IF exported THEN files \cup {tile.path} ELSE files
    /\ UNCHANGED <<tilerIn, tilerVars, callVars, nameVars, provider, dirExists,
                   partial, histVars, mosaicVars>>

\* main of download_missing_gee_s2_composite.py up to the missing list.
List_download_missing_gee_s2_composite ==
    /\ job.script = "download_missing_gee_s2_composite"
    /\ job.pc = "start"
    /\ LET t == list_tiles("download_missing_gee_s2_composite")
           missing == missing_miss(t.out, files)
       IN  job' = IF t.pc = "ValueError"
                  THEN [job EXCEPT !.pc = "ValueError"]
                  ELSE [job EXCEPT !.pc = IF missing = <<>>
                                          THEN "done"
                                          ELSE "listed",
                                   !.listed = TRUE,
                                   !.total = Len(t.out),
                                   !.missing = missing]
    /\ UNCHANGED <<tilerIn, tilerVars, callVars, nameVars, provider, diskVars,
                   histVars, mosaicVars>>

\* main of download_missing_gee_s2_composite.py: init_ee and build_composite.
Composite_download_missing_gee_s2_composite ==
    /\ job.script = "download_missing_gee_s2_composite"
    /\ job.pc = "listed"
    /\ job' = [job EXCEPT !.pc = CASE provider = "down" -> "EEException"
                                   [] provider = "empty" -> "SystemExit"
                                   [] OTHER -> "downloading"]
    /\ UNCHANGED <<tilerIn, tilerVars, callVars, nameVars, provider, diskVars,
                   histVars, mosaicVars>>

\* One round of the download loop of main: download_tile either saves the
\* file, or fails at getDownloadURL (before the mkdir), at raise_for_status
\* (after the mkdir, before the file is opened) or in the middle of the
\* stream (the file is left incomplete).
Download_download_missing_gee_s2_composite ==
    /\ job.script = "download_missing_gee_s2_composite"
    /\ job.pc = "downloading"
    /\ LET idx == Len(job.progress) + 1
           total == Len(job.missing)
           tile == job.missing[idx]
           called == Append(job.progress,
                            [idx |-> idx, total |-> total, row |-> tile.row,
                             col |-> tile.col, path |-> tile.path])
       IN  \E outcome \in {"saved", "EEException", "HTTPError",
                           "ConnectionError"} :
              /\ job' = [job EXCEPT
                           !.progress = called,
                           !.pc = IF outcome = "saved"
                                  THEN IF idx = total THEN "done"
                                                      ELSE "downloading"
                                  ELSE outcome]
              /\ dirExists' = IF outcome = "EEException"
                              THEN dirExists
                              ELSE mkdir_miss(dirExists)
              /\ files' = IF outcome \in {"saved", "ConnectionError"}
                          THEN files \cup {tile.path}
                          ELSE files
              /\ partial' = IF outcome = "ConnectionError"
                            THEN partial \cup {tile.path}
                            ELSE partial
    /\ UNCHANGED <<tilerIn, tilerVars, callVars, nameVars, provider, histVars, mosaicVars>>

ReconcileNext ==
    \/ Run_check_alphaearth_tiles
    \/ Run_check_download_gee_s2_composite
    \/ List_download_missing_alphaearth_tiles
    \/ Export_download_missing_alphaearth_tiles
    \/ List_download_missing_gee_s2_composite
    \/ Composite_download_missing_gee_s2_composite
    \/ Download_download_missing_gee_s2_composite

ReconcileSpec == ReconcileInit /\ [][ReconcileNext]_vars

\* The name the script s is expected to give tile ix.
ExpectedName(s, ix) ==
    LET t == TemplateOf(s)
    IN  IF s \in PaddedScripts
        THEN PaddedName(t[1], t[2], t[3], ix)
        ELSE PlainName(t[1], t[2], t[3], ix)

\* The tiles of the canonical order whose file was not there at the start,
\* each with its path.
AbsentAtStart(s) ==
    LET tiles == list_tiles(TilerFor(s)).out
        tagged == [k \in 1 .. Len(tiles) |->
                     [row |-> tiles[k].row, col |-> tiles[k].col,
                      path |-> ExpectedName(s, <<tiles[k].row, tiles[k].col>>)]]
        absent(m) == m.path \notin filesAtStart
    IN  SelectSeq(tagged, absent)

\* C6: the missing list is the tiles of the tiler's canonical order whose file
\* is not in the directory, each once and in that order; the download-missing
\* scripts take them in that order, numbered 1..N with N the number of
\* missing tiles, and a run that completes has taken all N.
C6_MissingInCanonicalOrder ==
    job.listed =>
        /\ job.missing = AbsentAtStart(job.script)
        /\ Len(job.progress) <= Len(job.missing)
        /\ \A k \in 1 .. Len(job.progress) :
              job.progress[k] = [idx |-> k, total |-> Len(job.missing),
                                 row |-> job.missing[k].row,
                                 col |-> job.missing[k].col,
                                 path |-> job.missing[k].path]
        /\ (job.script \notin Checkers /\ job.pc = "done")
              => Len(job.progress) = Len(job.missing)

\* A download-missing run that found some tiles present, two or more
\* missing, and has downloaded them all.
C6_Witness ==
    /\ job.script = "download_missing_gee_s2_composite"
    /\ job.pc = "done"
    /\ Len(job.missing) >= 2
    /\ Len(job.missing) < job.total
    /\ Len(job.progress) = Len(job.missing)
    /\ job.missing[1].path \in files

\* A valid tile spec and, where the checker needs it, Earth Engine reachable.
CheckerCanRun ==
    /\ ValidTileSpec
    /\ job.script = "check_alphaearth_tiles" => provider # "down"

Requested == {job.progress[k].path : k \in 1 .. Len(job.progress)}

\* C19: a download-missing run asks the provider only for tiles whose file
\* was absent when it started, each once; the files there at the start stay,
\* whole, and every new file is one the run asked for. A finished run has
\* asked for every absent tile, and a run that found no tile absent asks for
\* nothing and ends without a download.
C19_OnlyAbsentTilesRequested ==
    job.script \in ReconcileScripts \ Checkers =>
        LET absent == AbsentAtStart(job.script)
            absentPaths == {absent[k].path : k \in 1 .. Len(absent)}
        IN  /\ Requested \subseteq absentPaths
            /\ Requested \cap filesAtStart = {}
            /\ Cardinality(Requested) = Len(job.progress)
            /\ filesAtStart \subseteq files
            /\ partial \cap filesAtStart = {}
            /\ files \ filesAtStart \subseteq Requested
            /\ job.pc = "done" => Requested = absentPaths
            /\ (job.listed /\ absent = <<>>) =>
                  /\ job.pc = "done"
                  /\ job.progress = <<>>
                  /\ files = filesAtStart

\* A finished download-missing run in a directory that held some of the
\* tiles: it asked for the others and for none of those.
C19_Witness ==
    /\ job.script \in ReconcileScripts \ Checkers
    /\ job.pc = "done"
    /\ filesAtStart # {}
    /\ Requested # {}
    /\ Len(job.progress) < job.total
    /\ files = filesAtStart \cup Requested

\* A download-missing run in a directory that held every tile: it has ended
\* without asking for any.
C19_NothingMissing ==
    /\ job.script \in ReconcileScripts \ Checkers
    /\ job.pc = "done"
    /\ job.total > 0
    /\ job.missing = <<>>
    /\ job.progress = <<>>

\* The download of the S2 composite run has raised at its last call of
\* download_tile.
DownloadTileRaised ==
    /\ job.script = "download_missing_gee_s2_composite"
    /\ job.progress # <<>>
    /\ job.pc \in {"EEException", "HTTPError", "ConnectionError"}

\* The path of the last tile download_tile was called for.
LastPath == job.progress[Len(job.progress)].path

\* The paths a download-missing run started on the directory as it is now
\* would list as missing.
MissingNow ==
    LET t == list_tiles("download_missing_gee_s2_composite")
        missing == missing_miss(t.out, files)
    IN  {missing[k].path : k \in 1 .. Len(missing)}

\* C29 as stated: whenever download_tile raises, no file is left at the
\* tile's path, and a later run lists the tile as missing.
C29_NoFileAfterFailure ==
    DownloadTileRaised =>
        /\ LastPath \notin files
        /\ LastPath \in MissingNow

\* C29 for the failures before the file is opened: when download_tile raises
\* at getDownloadURL or at raise_for_status, no file is left at the tile's
\* path, and a later run lists the tile as missing; every file that is
\* incomplete is the file of a tile whose stream broke.
C29_NoFileAfterStatusFailure ==
    /\ (DownloadTileRaised /\ job.pc \in {"EEException", "HTTPError"}) =>
          /\ LastPath \notin files
          /\ LastPath \in MissingNow
    /\ partial # {} =>
          /\ DownloadTileRaised
          /\ job.pc = "ConnectionError"
          /\ partial = {LastPath}

\* download_tile has raised in the middle of the stream of the second tile
\* it was called for: the incomplete file is at the tile's path, and a later
\* run does not list the tile.
C29_Witness ==
    /\ DownloadTileRaised
    /\ job.pc = "ConnectionError"
    /\ Len(job.progress) >= 2
    /\ LastPath \in files
    /\ LastPath \in partial
    /\ LastPath \notin MissingNow

----------------------------------------------------------------------------
(* Mosaicking tile rasters *)

\* Coordinates are whole units; a pixel is PixelWidth by PixelHeight units and
\* every tile sits on the pixel grid, so that the quotients below are exact.

\* The value a raster without a nodata value gets for nodata.
Nodata == 0

\* int(math.ceil(a / b)) for a >= 0 and b > 0
CeilDiv(a, b) == (a + b - 1) \div b

\* The pixels of tile k of the list: a value of its own in every pixel, or
\* the same with nodata in the top-left pixel.
Pixels(k, w, h, pattern) ==
    [p \in (0 .. h - 1) \X (0 .. w - 1) |->
        IF pattern = "hole" /\ p = <<0, 0>>
        THEN Nodata
        ELSE 100 * k + 10 * p[1] + p[2] + 1]

\* Tile rasters that can stand at position k of the list: top-left corner on
\* the pixel grid, 1 or MaxTileDim pixels each way.
TilesAt(k) ==
    {[left |-> c * PixelWidth,
      top |-> (MaxOff + MaxTileDim - r) * PixelHeight,
      width |-> w, height |-> h,
      a |-> PixelWidth, e |-> 0 - PixelHeight,
      crs |-> "EPSG:4326",
      data |-> Pixels(k, w, h, pattern)] :
        c \in 0 .. MaxOff, r \in 0 .. MaxOff,
        w \in {1, MaxTileDim}, h \in {1, MaxTileDim},
        pattern \in {"full", "hole"}}

\* rasterio: ds.bounds
bounds(ds) ==
    [left |-> ds.left, bottom |-> ds.top + ds.height * ds.e,
     right |-> ds.left + ds.width * ds.a, top |-> ds.top]

\* Mutant: the row offset measured from the bottom edge.
from_bounds_FromBottom(left, bottom, right, top, transform) ==
    [col_off |-> (left - transform.west) \div transform.a,
     row_off |-> (transform.north - bottom) \div (0 - transform.e),
     width |-> (right - left) \div transform.a,
     height |-> (top - bottom) \div (0 - transform.e)]

\* rasterio.windows.from_bounds(left, bottom, right, top, transform)
from_bounds(left, bottom, right, top, transform) ==
    [col_off |-> (left - transform.west) \div transform.a,
     row_off |-> (transform.north - top) \div (0 - transform.e),
     width |-> (right - left) \div transform.a,
     height |-> (top - bottom) \div (0 - transform.e)]

\* Window.round_offsets().round_lengths(): whole numbers stay as they are.
round_window(window) == window

\* Mutant: the pixels that are nodata in the source are not written.
write_SkipNodata(raster, data, window) ==
    [p \in DOMAIN raster |->
        IF /\ window.row_off <= p[1] /\ p[1] < window.row_off + window.height
           /\ window.col_off <= p[2] /\ p[2] < window.col_off + window.width
           /\ data[<<p[1] - window.row_off, p[2] - window.col_off>>] # Nodata
        THEN data[<<p[1] - window.row_off, p[2] - window.col_off>>]
        ELSE raster[p]]

\* dst.write(data, window=window): the pixels of the window take the data.
write(raster, data, window) ==
    [p \in DOMAIN raster |->
        IF /\ window.row_off <= p[1] /\ p[1] < window.row_off + window.height
           /\ window.col_off <= p[2] /\ p[2] < window.col_off + window.width
        THEN data[<<p[1] - window.row_off, p[2] - window.col_off>>]
        ELSE raster[p]]

\* rasterio.open(output, "w", **meta): a raster of nodata
new_raster(width, height, nodata) ==
    [p \in (0 .. height - 1) \X (0 .. width - 1) |-> nodata]

\* Mutant: the output takes the width and height of the first tile.
compute_mosaic_metadata_FirstTile(paths) ==
    LET ks == DOMAIN paths
        minx == SetMin({bounds(paths[k]).left : k \in ks})
        miny == SetMin({bounds(paths[k]).bottom : k \in ks})
        maxx == SetMax({bounds(paths[k]).right : k \in ks})
        maxy == SetMax({bounds(paths[k]).top : k \in ks})
        ref_meta == paths[1]
        pixel_width == ref_meta.a
        pixel_height == 0 - ref_meta.e
    IN  IF \E k \in ks : \/ paths[k].crs # ref_meta.crs
                         \/ paths[k].a # ref_meta.a
                         \/ paths[k].e # ref_meta.e
        THEN [pc |-> "ValueError"]
        ELSE [pc |-> "ok",
              width |-> ref_meta.width,
              height |-> ref_meta.height,
              transform |-> from_origin(minx, maxy, pixel_width, pixel_height),
              nodata |-> Nodata]

\* compute_mosaic_metadata of naturalforest/mosaic_naturalforest.py
compute_mosaic_metadata(paths) ==
    LET ks == DOMAIN paths
        minx == SetMin({bounds(paths[k]).left : k \in ks})
        miny == SetMin({bounds(paths[k]).bottom : k \in ks})
        maxx == SetMax({bounds(paths[k]).right : k \in ks})
        maxy == SetMax({bounds(paths[k]).top : k \in ks})
        ref_meta == paths[1]
        pixel_width == ref_meta.a
        pixel_height == 0 - ref_meta.e
    IN  IF \E k \in ks : \/ paths[k].crs # ref_meta.crs
                         \/ paths[k].a # ref_meta.a
                         \/ paths[k].e # ref_meta.e
        THEN [pc |-> "ValueError"]
        ELSE [pc |-> "ok",
              width |-> CeilDiv(maxx - minx, pixel_width),
              height |-> CeilDiv(maxy - miny, pixel_height),
              transform |-> from_origin(minx, maxy, pixel_width, pixel_height),
              nodata |-> Nodata]

\* Mutant: a block goes to its own offsets, without those of the window.
RECURSIVE stream_blocks_NoOffset(_, _, _, _)
stream_blocks_NoOffset(raster, src, dst_window, r) ==
    IF r >= src.height
    THEN raster
    ELSE LET data == [p \in {0} \X (0 .. src.width - 1) |->
                         src.data[<<r, p[2]>>]]
             dst_block == [col_off |-> 0,
                           row_off |-> r,
                           width |-> src.width, height |-> 1]
         IN  stream_blocks_NoOffset(write(raster, data, dst_block), src, dst_window,
                           r + 1)

\* The block loop of _stream_tile from block row r on: the blocks of a tile
\* are its rows.
RECURSIVE stream_blocks(_, _, _, _)
stream_blocks(raster, src, dst_window, r) ==
    IF r >= src.height
    THEN raster
    ELSE LET data == [p \in {0} \X (0 .. src.width - 1) |->
                         src.data[<<r, p[2]>>]]
             dst_block == [col_off |-> 0 + dst_window.col_off,
                           row_off |-> r + dst_window.row_off,
                           width |-> src.width, height |-> 1]
         IN  stream_blocks(write(raster, data, dst_block), src, dst_window,
                           r + 1)

\* _stream_tile of naturalforest/mosaic_naturalforest.py; the size of a tile
\* in megabytes is counted in pixels.
stream_tile(raster, src, dst_transform, max_mb) ==
    LET b == bounds(src)
        dst_window == round_window(from_bounds(b.left, b.bottom, b.right,
                                               b.top, dst_transform))
        tile_mb == src.width * src.height
    IN  IF dst_window.width # src.width \/ dst_window.height # src.height
        THEN [pc |-> "ValueError", raster |-> raster]
        ELSE IF max_mb > 0 /\ tile_mb <= max_mb
        THEN [pc |-> "ok", raster |-> write(raster, src.data, dst_window)]
        ELSE [pc |-> "ok", raster |-> stream_blocks(raster, src, dst_window, 0)]

\* _streaming_mosaic of preprocessing/mosaic_s2_composite.py: the profile of
\* the output
streaming_mosaic_profile(paths) ==
    LET ks == DOMAIN paths
        ref == paths[1]
        res_x == ref.a
        res_y == 0 - ref.e
        min_left == SetMin({bounds(paths[k]).left : k \in ks})
        min_bottom == SetMin({bounds(paths[k]).bottom : k \in ks})
        max_right == SetMax({bounds(paths[k]).right : k \in ks})
        max_top == SetMax({bounds(paths[k]).top : k \in ks})
    IN  [width |-> CeilDiv(max_right - min_left, res_x),
         height |-> CeilDiv(max_top - min_bottom, res_y),
         transform |-> from_origin(min_left, max_top, res_x, res_y),
         nodata |-> Nodata]

\* _streaming_mosaic and streaming_mosaic hand dst.write a window that can
\* differ in shape from the data: GDAL scales the data to the window.
resample(data, width, height, window) ==
    [p \in (0 .. window.height - 1) \X (0 .. window.width - 1) |->
        data[<<(p[1] * height) \div window.height,
               (p[2] * width) \div window.width>>]]

\* streaming_mosaic of preprocessing/mosaic_s2.py: the profile of the output
streaming_mosaic_profile_s2(paths) ==
    LET ks == DOMAIN paths
        ref == paths[1]
        res_x == ref.a
        res_y == 0 - ref.e
        min_left == SetMin({bounds(paths[k]).left : k \in ks})
        min_bottom == SetMin({bounds(paths[k]).bottom : k \in ks})
        max_right == SetMax({bounds(paths[k]).right : k \in ks})
        max_top == SetMax({bounds(paths[k]).top : k \in ks})
    IN  [width |-> CeilDiv(max_right - min_left, res_x),
         height |-> CeilDiv(max_top - min_bottom, res_y),
         transform |-> from_origin(min_left, max_top, res_x, res_y),
         nodata |-> Nodata]

MosaicScripts == {"mosaic_naturalforest", "mosaic_s2_composite", "mosaic_s2"}

\* The run of script s before its first step, with no output file yet.
FreshRun(s) ==
    [script |-> s, pc |-> "start", exists |-> FALSE, width |-> 0, height |-> 0,
     transform |-> from_origin(0, 0, 1, 1), nodata |-> 0,
     raster |-> <<>>, processed |-> 0]

MosaicInit ==
    /\ NoTiler
    /\ NoCalls
    /\ NoNames
    /\ NoFiles
    /\ tile_paths \in {<<t1>> : t1 \in TilesAt(1)}
                      \cup {<<t1, t2>> : t1 \in TilesAt(1), t2 \in TilesAt(2)}
    /\ start_tile = 1
    /\ flags = NoFlags
    /\ \E s \in MosaicScripts :
          /\ mosaic = FreshRun(s)
          /\ max_tile_mb \in IF s = "mosaic_naturalforest"
                             THEN {0, MaxTileDim}
                             ELSE {0}

\* Mutant: the transform of the existing output is not compared.
check_existing_NoTransform(existing, meta) ==
    IF ~existing.exists
    THEN "FileNotFoundError"
    ELSE IF existing.width # meta.width \/ existing.height # meta.height
    THEN "ValueError"
    ELSE "ok"

\* mosaic_tiles, the checks of a resumed run on the output file that is there
check_existing(existing, meta) ==
    IF ~existing.exists
    THEN "FileNotFoundError"
    ELSE IF existing.transform # meta.transform
    THEN "ValueError"
    ELSE IF existing.width # meta.width \/ existing.height # meta.height
    THEN "ValueError"
    ELSE "ok"

\* Mutant: a resumed run opens the output with "w" as well, a new file.
Open_mosaic_naturalforest_Truncating ==
    /\ mosaic.script = "mosaic_naturalforest"
    /\ mosaic.pc = "start"
    /\ LET meta == compute_mosaic_metadata(tile_paths)
           total_tiles == Len(tile_paths)
           resume == start_tile > 1
       IN  mosaic' =
             IF meta.pc = "ValueError"
             THEN [mosaic EXCEPT !.pc = "ValueError"]
             ELSE IF start_tile < 1 \/ start_tile > total_tiles
             THEN [mosaic EXCEPT !.pc = "ValueError"]
             ELSE IF resume /\ check_existing(mosaic, meta) # "ok"
             THEN [mosaic EXCEPT !.pc = check_existing(mosaic, meta)]
             ELSE [mosaic EXCEPT
                     !.pc = "writing",
                     !.exists = TRUE,
                     !.width = meta.width, !.height = meta.height,
                     !.transform = meta.transform,
                     !.nodata = meta.nodata,
                     !.raster = new_raster(meta.width, meta.height,
                                           meta.nodata),
                     !.processed = start_tile - 1]
    /\ UNCHANGED <<tilerIn, tilerVars, callVars, nameVars, fileVars, mosaicIn>>

\* mosaic_tiles of mosaic_naturalforest.py up to its loop: the metadata, the
\* check of start_tile, the checks of a resumed output, and the output file
\* opened ("w" makes a new file, "r+" keeps the one there).
Open_mosaic_naturalforest ==
    /\ mosaic.script = "mosaic_naturalforest"
    /\ mosaic.pc = "start"
    /\ LET meta == compute_mosaic_metadata(tile_paths)
           total_tiles == Len(tile_paths)
           resume == start_tile > 1
       IN  mosaic' =
             IF meta.pc = "ValueError"
             THEN [mosaic EXCEPT !.pc = "ValueError"]
             ELSE IF start_tile < 1 \/ start_tile > total_tiles
             THEN [mosaic EXCEPT !.pc = "ValueError"]
             ELSE IF resume /\ check_existing(mosaic, meta) # "ok"
             THEN [mosaic EXCEPT !.pc = check_existing(mosaic, meta)]
             ELSE IF resume
             THEN [mosaic EXCEPT !.pc = "writing",
                                 !.processed = start_tile - 1]
             ELSE [mosaic EXCEPT
                     !.pc = "writing",
                     !.exists = TRUE,
                     !.width = meta.width, !.height = meta.height,
                     !.transform = meta.transform,
                     !.nodata = meta.nodata,
                     !.raster = new_raster(meta.width, meta.height,
                                           meta.nodata),
                     !.processed = start_tile - 1]
    /\ UNCHANGED <<tilerIn, tilerVars, callVars, nameVars, fileVars, mosaicIn>>

\* One round of the loop of mosaic_tiles: _stream_tile on the next tile.
Stream_mosaic_naturalforest ==
    /\ mosaic.script = "mosaic_naturalforest"
    /\ mosaic.pc = "writing"
    /\ LET processed == mosaic.processed + 1
           res == stream_tile(mosaic.raster, tile_paths[processed],
                              mosaic.transform, max_tile_mb)
       IN  mosaic' = IF res.pc = "ValueError"
                     THEN [mosaic EXCEPT !.pc = "ValueError"]
                     ELSE [mosaic EXCEPT
                             !.raster = res.raster,
                             !.processed = processed,
                             !.pc = IF processed = Len(tile_paths)
                                    THEN "finalizing" ELSE "writing"]
    /\ UNCHANGED <<tilerIn, tilerVars, callVars, nameVars, fileVars, mosaicIn>>

\* Mutant: after a failure the loop goes on with the same tile.
Fail_mosaic_naturalforest_Retry ==
    /\ mosaic.script = "mosaic_naturalforest"
    /\ mosaic.pc = "writing"
    /\ LET src == tile_paths[mosaic.processed + 1]
           b == bounds(src)
           dst_window == round_window(from_bounds(b.left, b.bottom, b.right,
                                                  b.top, mosaic.transform))
       IN  \E rows \in 0 .. src.height - 1 :
              mosaic' = [mosaic EXCEPT
                           !.raster = write(@, src.data,
                                            [dst_window EXCEPT !.height = rows])]
    /\ UNCHANGED <<tilerIn, tilerVars, callVars, nameVars, fileVars, mosaicIn>>

\* _stream_tile fails on the next tile (the tile cannot be read, the output
\* cannot be written): the exception ends mosaic_tiles, with some first rows
\* of the tile written or none.
Fail_mosaic_naturalforest ==
    /\ mosaic.script = "mosaic_naturalforest"
    /\ mosaic.pc = "writing"
    /\ LET src == tile_paths[mosaic.processed + 1]
           b == bounds(src)
           dst_window == round_window(from_bounds(b.left, b.bottom, b.right,
                                                  b.top, mosaic.transform))
       IN  \E rows \in 0 .. src.height - 1 :
              mosaic' = [mosaic EXCEPT
                           !.pc = "RasterioIOError",
                           !.raster = write(@, src.data,
                                            [dst_window EXCEPT !.height = rows])]
    /\ UNCHANGED <<tilerIn, tilerVars, callVars, nameVars, fileVars, mosaicIn>>

\* The end of mosaic_tiles: the output file is closed and the run reported.
Close_mosaic_naturalforest ==
    /\ mosaic.script = "mosaic_naturalforest"
    /\ mosaic.pc = "finalizing"
    /\ mosaic' = [mosaic EXCEPT !.pc = "done"]
    /\ UNCHANGED <<tilerIn, tilerVars, callVars, nameVars, fileVars, mosaicIn>>

\* _streaming_mosaic up to its loop: the profile and the new output file.
Open_mosaic_s2_composite ==
    /\ mosaic.script = "mosaic_s2_composite"
    /\ mosaic.pc = "start"
    /\ LET profile == streaming_mosaic_profile(tile_paths)
       IN  mosaic' = [mosaic EXCEPT
                        !.pc = "writing",
                        !.exists = TRUE,
                        !.width = profile.width, !.height = profile.height,
                        !.transform = profile.transform,
                        !.nodata = profile.nodata,
                        !.raster = new_raster(profile.width, profile.height,
                                              profile.nodata),
                        !.processed = 0]
    /\ UNCHANGED <<tilerIn, tilerVars, callVars, nameVars, fileVars, mosaicIn>>

\* One round of the loop of _streaming_mosaic: the next tile is read and
\* written at the window of its bounds.
Write_mosaic_s2_composite ==
    /\ mosaic.script = "mosaic_s2_composite"
    /\ mosaic.pc = "writing"
    /\ LET processed == mosaic.processed + 1
           src == tile_paths[processed]
           b == bounds(src)
           win == from_bounds(b.left, b.bottom, b.right, b.top,
                              mosaic.transform)
           data == resample(src.data, src.width, src.height, win)
       IN  mosaic' = [mosaic EXCEPT
                        !.raster = write(@, data, win),
                        !.processed = processed,
                        !.pc = IF processed = Len(tile_paths)
                               THEN "finalizing" ELSE "writing"]
    /\ UNCHANGED <<tilerIn, tilerVars, callVars, nameVars, fileVars, mosaicIn>>

\* src.read or dst.write fails in the loop of _streaming_mosaic.
Fail_mosaic_s2_composite ==
    /\ mosaic.script = "mosaic_s2_composite"
    /\ mosaic.pc = "writing"
    /\ LET src == tile_paths[mosaic.processed + 1]
           b == bounds(src)
           win == from_bounds(b.left, b.bottom, b.right, b.top,
                              mosaic.transform)
           data == resample(src.data, src.width, src.height, win)
       IN  \E rows \in 0 .. Max(win.height - 1, 0) :
              mosaic' = [mosaic EXCEPT
                           !.pc = "RasterioIOError",
                           !.raster = write(@, data,
                                            [win EXCEPT !.height = rows])]
    /\ UNCHANGED <<tilerIn, tilerVars, callVars, nameVars, fileVars, mosaicIn>>

\* The end of _streaming_mosaic: the output file is closed.
Close_mosaic_s2_composite ==
    /\ mosaic.script = "mosaic_s2_composite"
    /\ mosaic.pc = "finalizing"
    /\ mosaic' = [mosaic EXCEPT !.pc = "done"]
    /\ UNCHANGED <<tilerIn, tilerVars, callVars, nameVars, fileVars, mosaicIn>>

\* streaming_mosaic of mosaic_s2.py up to its loop.
Open_mosaic_s2 ==
    /\ mosaic.script = "mosaic_s2"
    /\ mosaic.pc = "start"
    /\ LET profile == streaming_mosaic_profile_s2(tile_paths)
       IN  mosaic' = [mosaic EXCEPT
                        !.pc = "writing",
                        !.exists = TRUE,
                        !.width = profile.width, !.height = profile.height,
                        !.transform = profile.transform,
                        !.nodata = profile.nodata,
                        !.raster = new_raster(profile.width, profile.height,
                                              profile.nodata),
                        !.processed = 0]
    /\ UNCHANGED <<tilerIn, tilerVars, callVars, nameVars, fileVars, mosaicIn>>

\* One round of the loop of streaming_mosaic of mosaic_s2.py.
Write_mosaic_s2 ==
    /\ mosaic.script = "mosaic_s2"
    /\ mosaic.pc = "writing"
    /\ LET processed == mosaic.processed + 1
           src == tile_paths[processed]
           b == bounds(src)
           win == from_bounds(b.left, b.bottom, b.right, b.top,
                              mosaic.transform)
           data == resample(src.data, src.width, src.height, win)
       IN  mosaic' = [mosaic EXCEPT
                        !.raster = write(@, data, win),
                        !.processed = processed,
                        !.pc = IF processed = Len(tile_paths)
                               THEN "finalizing" ELSE "writing"]
    /\ UNCHANGED <<tilerIn, tilerVars, callVars, nameVars, fileVars, mosaicIn>>

\* src.read or dst.write fails in the loop of streaming_mosaic.
Fail_mosaic_s2 ==
    /\ mosaic.script = "mosaic_s2"
    /\ mosaic.pc = "writing"
    /\ LET src == tile_paths[mosaic.processed + 1]
           b == bounds(src)
           win == from_bounds(b.left, b.bottom, b.right, b.top,
                              mosaic.transform)
           data == resample(src.data, src.width, src.height, win)
       IN  \E rows \in 0 .. Max(win.height - 1, 0) :
              mosaic' = [mosaic EXCEPT
                           !.pc = "RasterioIOError",
                           !.raster = write(@, data,
                                            [win EXCEPT !.height = rows])]
    /\ UNCHANGED <<tilerIn, tilerVars, callVars, nameVars, fileVars, mosaicIn>>

\* The end of streaming_mosaic: the output file is closed.
Close_mosaic_s2 ==
    /\ mosaic.script = "mosaic_s2"
    /\ mosaic.pc = "finalizing"
    /\ mosaic' = [mosaic EXCEPT !.pc = "done"]
    /\ UNCHANGED <<tilerIn, tilerVars, callVars, nameVars, fileVars, mosaicIn>>

NaturalforestNext ==
    \/ Open_mosaic_naturalforest
    \/ Stream_mosaic_naturalforest
    \/ Fail_mosaic_naturalforest
    \/ Close_mosaic_naturalforest

MosaicNext ==
    \/ NaturalforestNext
    \/ Open_mosaic_s2_composite
    \/ Write_mosaic_s2_composite
    \/ Fail_mosaic_s2_composite
    \/ Close_mosaic_s2_composite
    \/ Open_mosaic_s2
    \/ Write_mosaic_s2
    \/ Fail_mosaic_s2
    \/ Close_mosaic_s2

MosaicSpec == MosaicInit /\ [][MosaicNext]_vars

\* The edges of tile k, and of the union of the tiles.
LeftOf(k) == tile_paths[k].left
TopOf(k) == tile_paths[k].top
RightOf(k) == tile_paths[k].left + tile_paths[k].width * tile_paths[k].a
BottomOf(k) == tile_paths[k].top + tile_paths[k].height * tile_paths[k].e
MinLeft == SetMin({LeftOf(k) : k \in DOMAIN tile_paths})
MaxRight == SetMax({RightOf(k) : k \in DOMAIN tile_paths})
MinBottom == SetMin({BottomOf(k) : k \in DOMAIN tile_paths})
MaxTop == SetMax({TopOf(k) : k \in DOMAIN tile_paths})

\* The least n with n * size >= length: ceil(length / size)
LeastCount(length, size) ==
    CHOOSE n \in 0 .. length : n * size >= length /\ (n - 1) * size < length

EqualPixelSize ==
    \A k \in DOMAIN tile_paths :
        tile_paths[k].a = tile_paths[1].a /\ tile_paths[k].e = tile_paths[1].e

OnPixelGrid ==
    \A j, k \in DOMAIN tile_paths :
        /\ (LeftOf(j) - LeftOf(k)) % tile_paths[1].a = 0
        /\ (TopOf(j) - TopOf(k)) % (0 - tile_paths[1].e) = 0

NoOverlap ==
    \A j, k \in DOMAIN tile_paths :
        j # k => \/ RightOf(j) <= LeftOf(k) \/ RightOf(k) <= LeftOf(j)
                 \/ TopOf(j) <= BottomOf(k) \/ TopOf(k) <= BottomOf(j)

\* Pixel p = <<row, col>> of tile k and pixel q of the output are the same
\* place on the ground.
SamePlace(k, p, q) ==
    /\ LeftOf(k) + p[2] * tile_paths[k].a
          = MinLeft + q[2] * tile_paths[1].a
    /\ TopOf(k) + p[1] * tile_paths[k].e
          = MaxTop + q[1] * tile_paths[1].e

\* C9: for tiles of equal pixel size on the pixel grid that do not overlap,
\* the run raises no error of its own (a failing read or write aside), the
\* output is ceil((max_right - min_left) /
\* pixel_width) wide and ceil((max_top - min_bottom) / pixel_height) high,
\* its origin is (min_left, max_top), and every pixel of every tile written
\* so far stands unchanged at its place in the output; a finished run has
\* written every tile.
C9_MosaicGridAndPixels ==
    (EqualPixelSize /\ OnPixelGrid /\ NoOverlap) =>
        /\ mosaic.pc \in {"start", "writing", "finalizing", "done",
                          "RasterioIOError"}
        /\ mosaic.pc # "start" =>
              /\ mosaic.width = LeastCount(MaxRight - MinLeft, tile_paths[1].a)
              /\ mosaic.height
                    = LeastCount(MaxTop - MinBottom, 0 - tile_paths[1].e)
              /\ mosaic.transform.west = MinLeft
              /\ mosaic.transform.north = MaxTop
              /\ DOMAIN mosaic.raster
                    = (0 .. mosaic.height - 1) \X (0 .. mosaic.width - 1)
              /\ \A k \in 1 .. mosaic.processed :
                    \A p \in DOMAIN tile_paths[k].data :
                        \E q \in DOMAIN mosaic.raster :
                            /\ SamePlace(k, p, q)
                            /\ mosaic.raster[q] = tile_paths[k].data[p]
        /\ mosaic.pc = "done" => mosaic.processed = Len(tile_paths)

\* Two square tiles of MaxTileDim pixels side by side or one above the other,
\* both written: the output is 2 * MaxTileDim by MaxTileDim pixels, or
\* MaxTileDim by 2 * MaxTileDim.
C9_Witness ==
    /\ mosaic.pc = "done"
    /\ Len(tile_paths) = 2
    /\ NoOverlap
    /\ \A k \in 1 .. 2 : /\ tile_paths[k].width = MaxTileDim
                         /\ tile_paths[k].height = MaxTileDim
    /\ \/ mosaic.width = 2 * MaxTileDim /\ mosaic.height = MaxTileDim
       \/ mosaic.width = MaxTileDim /\ mosaic.height = 2 * MaxTileDim

\* Tile k covers the output pixel q.
Covers(k, q) == \E p \in DOMAIN tile_paths[k].data : SamePlace(k, p, q)

\* The value tile k has at the place of the output pixel q.
ValueAt(k, q) ==
    LET p == CHOOSE p \in DOMAIN tile_paths[k].data : SamePlace(k, p, q)
    IN  tile_paths[k].data[p]

\* C10: an output pixel covered by tiles written so far has the value of the
\* last of them in the tile list, nodata included.
C10_LastWriteWins ==
    mosaic.pc \in {"writing", "finalizing", "done"} =>
        \A q \in DOMAIN mosaic.raster :
            LET covering == {k \in 1 .. mosaic.processed : Covers(k, q)}
            IN  covering # {} => mosaic.raster[q] = ValueAt(SetMax(covering), q)

\* Both tiles written, and a pixel where the first has a value and the second
\* has nodata.
C10_Witness ==
    /\ mosaic.pc = "done"
    /\ Len(tile_paths) = 2
    /\ \E q \in DOMAIN mosaic.raster :
          /\ Covers(1, q) /\ Covers(2, q)
          /\ ValueAt(1, q) # Nodata
          /\ ValueAt(2, q) = Nodata
          /\ mosaic.raster[q] = Nodata

\* The window of tile k in the output file as it was opened.
PlacementOf(k) ==
    LET b == bounds(tile_paths[k])
    IN  round_window(from_bounds(b.left, b.bottom, b.right, b.top,
                                 mosaic.transform))

\* C30: once the output file is open, the window of every tile of the list
\* lies inside the output grid: its offsets are not negative, and its last
\* column and row are within the output's width and height.
C30_WindowsInsideOutput ==
    (mosaic.exists /\ mosaic.pc # "start") =>
        \A k \in DOMAIN tile_paths :
            LET win == PlacementOf(k)
            IN  /\ win.col_off >= 0
                /\ win.row_off >= 0
                /\ win.width > 0
                /\ win.height > 0
                /\ win.col_off + win.width <= mosaic.width
                /\ win.row_off + win.height <= mosaic.height

\* mosaic_naturalforest has written two tiles, the second to the right of
\* and below the first and ending at the far corner of the output.
C30_Witness ==
    /\ mosaic.script = "mosaic_naturalforest"
    /\ mosaic.pc = "done"
    /\ Len(tile_paths) = 2
    /\ PlacementOf(2).col_off > 0
    /\ PlacementOf(2).row_off > 0
    /\ PlacementOf(2).col_off + PlacementOf(2).width = mosaic.width
    /\ PlacementOf(2).row_off + PlacementOf(2).height = mosaic.height

\* The output after _stream_tile on the next tile of the list, with
\* max_tile_mb = 0 (block by block) and with max_tile_mb the size of the
\* largest tile (the whole tile in one write).
NextBlockwise ==
    stream_tile(mosaic.raster, tile_paths[mosaic.processed + 1],
                mosaic.transform, 0)
NextWhole ==
    stream_tile(mosaic.raster, tile_paths[mosaic.processed + 1],
                mosaic.transform, MaxTileDim * MaxTileDim)

\* The pixels of the output inside the window win.
InWindow(win) ==
    {p \in DOMAIN mosaic.raster :
        /\ win.row_off <= p[1] /\ p[1] < win.row_off + win.height
        /\ win.col_off <= p[2] /\ p[2] < win.col_off + win.width}

\* C23: with the output open and a tile to write, _stream_tile leaves the
\* same output whether it copies the tile block by block or in one write;
\* the pixels of the tile's window hold the tile's data, all of them, and
\* the pixels outside the window are as they were.
C23_CopyStrategiesAgree ==
    (mosaic.script = "mosaic_naturalforest" /\ mosaic.pc = "writing") =>
        LET k == mosaic.processed + 1
            win == PlacementOf(k)
        IN  /\ NextBlockwise = NextWhole
            /\ NextBlockwise.pc = "ok"
            /\ Cardinality(InWindow(win)) = win.width * win.height
            /\ \A p \in InWindow(win) :
                  NextBlockwise.raster[p] =
                      tile_paths[k].data[<<p[1] - win.row_off,
                                           p[2] - win.col_off>>]
            /\ \A p \in DOMAIN mosaic.raster \ InWindow(win) :
                  NextBlockwise.raster[p] = mosaic.raster[p]

\* Every tile the run has written is in the output as the one-write copy
\* leaves it, whichever strategy max_tile_mb chose for it.
C23_WrittenTilesAgree ==
    (mosaic.script = "mosaic_naturalforest" /\ mosaic.pc = "done"
                                            /\ Len(tile_paths) = 2) =>
        LET one == write(new_raster(mosaic.width, mosaic.height, mosaic.nodata),
                         tile_paths[1].data, PlacementOf(1))
        IN  mosaic.raster = write(one, tile_paths[2].data, PlacementOf(2))

\* A finished run with max_tile_mb between the sizes of its two tiles: the
\* first tile, of MaxTileDim rows, went block by block, and the second, of
\* one pixel, in one write, onto a place the first tile had written.
C23_Witness ==
    /\ mosaic.script = "mosaic_naturalforest"
    /\ mosaic.pc = "done"
    /\ max_tile_mb = MaxTileDim
    /\ Len(tile_paths) = 2
    /\ tile_paths[1].width * tile_paths[1].height > max_tile_mb
    /\ tile_paths[1].height = MaxTileDim
    /\ tile_paths[2].width * tile_paths[2].height <= max_tile_mb
    /\ PlacementOf(1).row_off > 0
    /\ InWindow(PlacementOf(1)) \cap InWindow(PlacementOf(2)) # {}

----------------------------------------------------------------------------
(* Mosaicking tiles that do not match *)

\* Tiles of one column of MaxTileDim pixels that can stand at position k.
PlainTilesAt(k) ==
    {t \in TilesAt(k) : /\ t.width = 1
                        /\ t.height = MaxTileDim
                        /\ t.data = Pixels(k, 1, MaxTileDim, "full")}

\* One-pixel tiles that differ from those: pixels twice as wide, pixels twice
\* as high, or another coordinate reference system.
OddTilesAt(k) ==
    {[left |-> c * PixelWidth,
      top |-> (MaxOff + MaxTileDim - r) * PixelHeight,
      width |-> 1, height |-> 1,
      a |-> IF odd = "wide" THEN 2 * PixelWidth ELSE PixelWidth,
      e |-> IF odd = "tall" THEN 0 - 2 * PixelHeight ELSE 0 - PixelHeight,
      crs |-> IF odd = "crs" THEN "EPSG:32646" ELSE "EPSG:4326",
      data |-> Pixels(k, 1, 1, "full")] :
        c \in 0 .. MaxOff, r \in 0 .. MaxOff, odd \in {"wide", "tall", "crs"}}

MismatchInit ==
    /\ NoTiler
    /\ NoCalls
    /\ NoNames
    /\ NoFiles
    /\ tile_paths \in {<<t1, t2>> : t1 \in PlainTilesAt(1),
                                    t2 \in OddTilesAt(2) \cup PlainTilesAt(2)}
    /\ start_tile = 1
    /\ max_tile_mb = 0
    /\ flags = NoFlags
    /\ \E s \in MosaicScripts : mosaic = FreshRun(s)

MismatchSpec == MismatchInit /\ [][MosaicNext]_vars

\* A tile after the first differs from it in pixel size or in CRS.
Mismatching ==
    \E k \in 2 .. Len(tile_paths) :
        \/ tile_paths[k].a # tile_paths[1].a
        \/ tile_paths[k].e # tile_paths[1].e
        \/ tile_paths[k].crs # tile_paths[1].crs

\* C11 as stated: with a tile that differs from the first in pixel size or
\* CRS, every mosaic script stops with an error before there is an output
\* file, and copies no tile.
C11_MismatchIsFatal ==
    (Mismatching /\ mosaic.pc # "start") =>
        /\ mosaic.pc = "ValueError"
        /\ ~mosaic.exists
        /\ mosaic.processed = 0

\* C11 for mosaic_naturalforest alone: compute_mosaic_metadata raises on the
\* mismatch, before the output file is opened.
C11_NaturalforestRefusesMismatch ==
    (mosaic.script = "mosaic_naturalforest" /\ Mismatching
                                            /\ mosaic.pc # "start") =>
        /\ mosaic.pc = "ValueError"
        /\ ~mosaic.exists
        /\ mosaic.raster = <<>>
        /\ mosaic.processed = 0

\* mosaic_naturalforest has refused a list whose second tile is in another
\* CRS.
C11_Witness ==
    /\ mosaic.script = "mosaic_naturalforest"
    /\ mosaic.pc = "ValueError"
    /\ tile_paths[2].crs # tile_paths[1].crs
\* The window the bounds of tile k take in the grid of the first tile's
\* pixel size: its width and height in pixels.
WindowOf(k) ==
    [width |-> (RightOf(k) - LeftOf(k)) \div tile_paths[1].a,
     height |-> (TopOf(k) - BottomOf(k)) \div (0 - tile_paths[1].e)]

\* C12 as stated: a tile is written only after its window was found to have
\* the tile's own width and height, so every tile written so far has such a
\* window.
C12_WindowChecked ==
    \A k \in 1 .. mosaic.processed :
        /\ WindowOf(k).width = tile_paths[k].width
        /\ WindowOf(k).height = tile_paths[k].height

\* C12 for mosaic_naturalforest alone: every tile it has written has a window
\* of the tile's own width and height, and a refused run has written none.
C12_NaturalforestWindowsFit ==
    mosaic.script = "mosaic_naturalforest" =>
        /\ \A k \in 1 .. mosaic.processed :
              /\ WindowOf(k).width = tile_paths[k].width
              /\ WindowOf(k).height = tile_paths[k].height
        /\ mosaic.pc = "ValueError" => mosaic.raster = <<>>

\* mosaic_naturalforest has written two tiles that fit their windows.
C12_Witness ==
    /\ mosaic.script = "mosaic_naturalforest"
    /\ mosaic.pc = "done"
    /\ mosaic.processed = 2
    /\ ~Mismatching

----------------------------------------------------------------------------
(* Resuming a mosaic *)

\* Tile lists of two or three tiles of one column, each at the left edge.
ResumeTiles ==
    LET At(k) == {t \in PlainTilesAt(k) : t.left = 0}
    IN  {<<t1, t2>> : t1 \in At(1), t2 \in At(2)}
        \cup {<<t1, t2, t3>> : t1 \in At(1), t2 \in At(2), t3 \in At(3)}

\* The output files mosaic_tiles can find for the tile list paths: none, the
\* one an earlier run left after its first tile, and files one pixel wider,
\* one pixel higher, or with an origin one pixel to the east.
ExistingOutputs(paths) ==
    LET meta == compute_mosaic_metadata(paths)
        none == FreshRun("mosaic_naturalforest")
        empty == new_raster(meta.width, meta.height, meta.nodata)
        made == [none EXCEPT
                   !.exists = TRUE,
                   !.width = meta.width, !.height = meta.height,
                   !.transform = meta.transform, !.nodata = meta.nodata,
                   !.raster = stream_tile(empty, paths[1], meta.transform,
                                          0).raster]
    IN  {none, made,
         [made EXCEPT !.width = meta.width + 1,
                      !.raster = new_raster(meta.width + 1, meta.height,
                                            meta.nodata)],
         [made EXCEPT !.height = meta.height + 1,
                      !.raster = new_raster(meta.width, meta.height + 1,
                                            meta.nodata)],
         [made EXCEPT !.transform =
                        from_origin(meta.transform.west + meta.transform.a,
                                    meta.transform.north, meta.transform.a,
                                    0 - meta.transform.e)]}

ResumeInit ==
    /\ NoTiler
    /\ NoCalls
    /\ NoNames
    /\ NoFiles
    /\ tile_paths \in ResumeTiles
    /\ start_tile \in 0 .. Len(tile_paths) + 1
    /\ max_tile_mb = 0
    /\ flags = NoFlags
    /\ mosaic \in ExistingOutputs(tile_paths)

ResumeSpec == ResumeInit /\ [][NaturalforestNext]_vars

\* The output file m has the width, height and transform the tile list asks
\* for.
ExpectedGrid(m) ==
    /\ m.exists
    /\ m.width = LeastCount(MaxRight - MinLeft, tile_paths[1].a)
    /\ m.height = LeastCount(MaxTop - MinBottom, 0 - tile_paths[1].e)
    /\ m.transform = [a |-> tile_paths[1].a, west |-> MinLeft,
                      north |-> MaxTop, e |-> tile_paths[1].e]

\* The output file is the same in m and n: there or not, and its grid and
\* pixels.
SameFile(m, n) ==
    /\ n.exists = m.exists
    /\ n.width = m.width /\ n.height = m.height
    /\ n.transform = m.transform
    /\ n.nodata = m.nodata
    /\ n.raster = m.raster

ResumeErrors == {"FileNotFoundError", "ValueError"}

\* C13: mosaic_tiles with start_tile > 1 raises when the output file is
\* absent or differs in transform, width or height from what the tile list
\* gives, and then leaves the file as it was, for good; when the file
\* matches it goes on from tile start_tile with the file as it is. With
\* start_tile = 1 the output is a new file of nodata on the computed grid.
C13_ResumeChecked ==
    [][/\ (mosaic.pc = "start" /\ mosaic'.pc # "start") =>
            /\ (start_tile > 1 /\ ~ExpectedGrid(mosaic)) =>
                  /\ mosaic'.pc \in ResumeErrors
                  /\ SameFile(mosaic, mosaic')
                  /\ mosaic'.processed = 0
            /\ (start_tile > 1 /\ start_tile <= Len(tile_paths)
                  /\ ExpectedGrid(mosaic)) =>
                  /\ mosaic'.pc = "writing"
                  /\ SameFile(mosaic, mosaic')
                  /\ mosaic'.processed = start_tile - 1
            /\ start_tile = 1 =>
                  /\ mosaic'.pc = "writing"
                  /\ ExpectedGrid(mosaic')
                  /\ mosaic'.processed = 0
                  /\ mosaic'.raster
                        = [q \in (0 .. mosaic'.height - 1)
                                    \X (0 .. mosaic'.width - 1) |-> Nodata]
       /\ mosaic.pc \in ResumeErrors => mosaic' = mosaic]_vars

\* A resume from tile 2 was refused because the output file there, with
\* pixels of an earlier run or without, has another width, height or
\* transform; the file is still there.
C13_Witness ==
    /\ mosaic.script = "mosaic_naturalforest"
    /\ start_tile = 2
    /\ mosaic.pc = "ValueError"
    /\ mosaic.exists
    /\ ~ExpectedGrid(mosaic)
    /\ mosaic.processed = 0

\* Every pixel of tile k stands at its place in the raster of m, and every
\* other pixel of m is as in n.
TileWritten(k, n, m) ==
    /\ DOMAIN m.raster = DOMAIN n.raster
    /\ \A q \in DOMAIN m.raster :
          m.raster[q] = IF Covers(k, q) THEN ValueAt(k, q) ELSE n.raster[q]

\* C14: a run of mosaic_tiles goes from its start to writing or to an error;
\* while writing, each step writes the next tile of the list, the first of
\* them tile start_tile, and the step after the last tile ends the writing;
\* a failure while writing ends the run with that tile not counted; after
\* the writing the run closes the file and is done. An ended run takes no
\* further step.
C14_OneTileAtATime ==
    [][\/ /\ mosaic.pc = "start"
          /\ mosaic'.pc \in {"writing"} \cup ResumeErrors
          /\ mosaic'.pc = "writing" => mosaic'.processed = start_tile - 1
       \/ /\ mosaic.pc = "writing"
          /\ mosaic'.pc = IF mosaic.processed + 1 = Len(tile_paths)
                          THEN "finalizing" ELSE "writing"
          /\ mosaic'.processed = mosaic.processed + 1
          /\ TileWritten(mosaic'.processed, mosaic, mosaic')
       \/ /\ mosaic.pc = "writing"
          /\ mosaic'.pc \in {"RasterioIOError", "ValueError"}
          /\ mosaic'.processed = mosaic.processed
       \/ /\ mosaic.pc = "finalizing"
          /\ mosaic'.pc = "done"
          /\ mosaic'.processed = Len(tile_paths)
          /\ SameFile(mosaic, mosaic')]_vars

\* Of three tiles, the first was written, the second failed after its first
\* row, and the run has ended there.
C14_Witness ==
    /\ mosaic.script = "mosaic_naturalforest"
    /\ Len(tile_paths) = 3
    /\ start_tile = 1
    /\ mosaic.pc = "RasterioIOError"
    /\ mosaic.processed = 1
    /\ \E q \in DOMAIN mosaic.raster :
          Covers(2, q) /\ mosaic.raster[q] = ValueAt(2, q)

----------------------------------------------------------------------------
(* A mosaic run that aborts, and the run that takes over *)

\* The most runs started again after an abort.
MaxReruns == 1

RerunInit ==
    /\ NoTiler
    /\ NoCalls
    /\ NoNames
    /\ NoFiles
    /\ tile_paths \in ResumeTiles
    /\ start_tile = 1
    /\ max_tile_mb = 0
    /\ flags = NoFlags
    /\ mosaic = FreshRun("mosaic_naturalforest")

\* main of mosaic_naturalforest.py run again after mosaic_tiles was ended by
\* an exception while it wrote a tile: the same tile list (the directory is
\* as it was), a start_tile of the operator's choice, and the output file as
\* the aborted run left it.  events keeps, for each such run, the tile the
\* run before it aborted on, the start_tile chosen and the output found.
Rerun_mosaic_naturalforest ==
    /\ mosaic.script = "mosaic_naturalforest"
    /\ mosaic.pc = "RasterioIOError"
    /\ Len(events) < MaxReruns
    /\ \E s \in 1 .. Len(tile_paths) :
          /\ start_tile' = Max(1, s)
          /\ events' = Append(events, [aborted |-> mosaic.processed + 1,
                                       start_tile |-> Max(1, s),
                                       raster |-> mosaic.raster])
    /\ mosaic' = [mosaic EXCEPT !.pc = "start", !.processed = 0]
    /\ UNCHANGED <<tilerIn, tilerVars, callVars, nameVars, provider, diskVars,
                   job, dirAtStart, filesAtStart, tile_paths, max_tile_mb,
                   flags>>

RerunNext ==
    \/ NaturalforestNext
    \/ Rerun_mosaic_naturalforest

RerunSpec == RerunInit /\ [][RerunNext]_vars

\* The output of one run over the first n tiles that nothing interrupts:
\* nodata, and in every pixel some tile covers the value of the last such
\* tile.
Uninterrupted(n) ==
    [q \in DOMAIN mosaic.raster |->
        LET covering == {k \in 1 .. n : Covers(k, q)}
        IN  IF covering = {} THEN Nodata ELSE ValueAt(SetMax(covering), q)]

\* Every run after an abort was started at the tile the run before it
\* aborted on.
ResumedWhereAborted ==
    /\ events # <<>>
    /\ \A i \in DOMAIN events : events[i].start_tile = events[i].aborted

\* C24: when every run after an abort starts at the tile the aborted run was
\* writing, the output of the run that finishes is the output of one
\* uninterrupted run over the whole list; a run resumed at a tile after the
\* first starts on the output exactly as the aborted run left it (a run
\* started again at tile 1 makes a new file); and until the run finishes
\* every pixel is as the uninterrupted run over the tiles counted so far
\* leaves it, or holds the pixel of the tile being written.
C24_ResumeGivesSameOutput ==
    ResumedWhereAborted =>
        /\ mosaic.pc \in {"finalizing", "done"} =>
              mosaic.raster = Uninterrupted(Len(tile_paths))
        /\ (mosaic.pc = "writing" /\ start_tile > 1
                                   /\ mosaic.processed = start_tile - 1) =>
              mosaic.raster = events[Len(events)].raster
        /\ mosaic.pc \in {"writing", "RasterioIOError"} =>
              \A q \in DOMAIN mosaic.raster :
                  \/ mosaic.raster[q] = Uninterrupted(mosaic.processed)[q]
                  \/ /\ Covers(mosaic.processed + 1, q)
                     /\ mosaic.raster[q] = ValueAt(mosaic.processed + 1, q)

\* Of three tiles the first run wrote the first and aborted on the second
\* with its first row written and its second not; the run started at tile 2
\* has finished.
C24_Witness ==
    /\ mosaic.pc = "done"
    /\ Len(tile_paths) = 3
    /\ Len(events) = 1
    /\ events[1].aborted = 2
    /\ start_tile = 2
    /\ \E q \in DOMAIN mosaic.raster :
          Covers(2, q) /\ events[1].raster[q] = ValueAt(2, q)
    /\ \E q \in DOMAIN mosaic.raster :
          /\ Covers(2, q)
          /\ events[1].raster[q] # ValueAt(2, q)
          /\ mosaic.raster[q] = ValueAt(2, q)
    /\ mosaic.raster = Uninterrupted(3)

\* A run started beyond the tile the aborted run was writing has finished
\* with an output that differs from the uninterrupted one.
C24_SkippedTileIsLost ==
    /\ mosaic.pc = "done"
    /\ Len(events) = 1
    /\ events[1].start_tile > events[1].aborted
    /\ mosaic.raster # Uninterrupted(Len(tile_paths))

----------------------------------------------------------------------------
(* mosaic_s2_composite: mosaicking in batches *)

\* The largest batch_size.
MaxBatch == 3

\* The loop of _streaming_mosaic from tile k of paths on: each tile is read
\* and written at the window of its bounds.
RECURSIVE write_tiles(_, _, _, _)
write_tiles(raster, paths, out_transform, k) ==
    IF k > Len(paths)
    THEN raster
    ELSE LET src == paths[k]
             b == bounds(src)
             win == from_bounds(b.left, b.bottom, b.right, b.top,
                                out_transform)
             data == resample(src.data, src.width, src.height, win)
         IN  write_tiles(write(raster, data, win), paths, out_transform, k + 1)

\* _streaming_mosaic of mosaic_s2_composite.py, a whole call that no read or
\* write fails: the raster file it leaves at output_path.
streaming_mosaic(paths) ==
    LET profile == streaming_mosaic_profile(paths)
    IN  [left |-> profile.transform.west,
         top |-> profile.transform.north,
         width |-> profile.width, height |-> profile.height,
         a |-> profile.transform.a, e |-> profile.transform.e,
         crs |-> paths[1].crs,
         data |-> write_tiles(new_raster(profile.width, profile.height,
                                         profile.nodata),
                              paths, profile.transform, 1)]

\* chunked(iterable, size): the chunk number idx, counted from 1
chunked(iterable, size, idx) ==
    SubSeq(iterable, (idx - 1) * size + 1, Min(idx * size, Len(iterable)))

\* The number of chunks chunked(iterable, size) yields.
chunks(iterable, size) == CeilDiv(Len(iterable), size)

\* Tile lists of two to four one-pixel tiles in one row of the pixel grid.
BatchTiles ==
    LET At(k) == {t \in TilesAt(k) : /\ t.width = 1 /\ t.height = 1
                                     /\ t.top = MaxTileDim * PixelHeight
                                     /\ t.data = Pixels(k, 1, 1, "full")}
    IN  {<<t1, t2>> : t1 \in At(1), t2 \in At(2)}
        \cup {<<t1, t2, t3>> : t1 \in At(1), t2 \in At(2), t3 \in At(3)}
        \cup {<<t1, t2, t3, t4>> : t1 \in At(1), t2 \in At(2), t3 \in At(3),
                                   t4 \in At(4)}

\* mosaic_tiles(tiles, output_path, batch_size) before its first step.
BatchInit ==
    /\ NoTiler
    /\ NoCalls
    /\ NoNames
    /\ NoFiles
    /\ tile_paths \in BatchTiles
    /\ start_tile = 1
    /\ max_tile_mb = 0
    /\ \E n \in 1 .. MaxBatch : flags = [batch_size |-> n]
    /\ mosaic = [script |-> "mosaic_s2_composite", pc |-> "start",
                 batch_outputs |-> <<>>, exists |-> FALSE, output |-> <<>>]

\* mosaic_tiles when the tiles fit one batch: _streaming_mosaic on the tiles.
Direct_mosaic_s2_composite ==
    /\ mosaic.pc = "start"
    /\ Len(tile_paths) <= flags.batch_size
    /\ mosaic' = [mosaic EXCEPT !.pc = "done", !.exists = TRUE,
                                !.output = streaming_mosaic(tile_paths)]
    /\ UNCHANGED <<tilerIn, tilerVars, callVars, nameVars, fileVars, mosaicIn>>

\* One round of the loop of mosaic_tiles: _streaming_mosaic on the next chunk
\* into batch_{idx:03d}.tif.
Batch_mosaic_s2_composite ==
    /\ mosaic.pc \in {"start", "batching"}
    /\ Len(tile_paths) > flags.batch_size
    /\ LET idx == Len(mosaic.batch_outputs) + 1
           chunk == chunked(tile_paths, flags.batch_size, idx)
       IN  /\ idx <= chunks(tile_paths, flags.batch_size)
           /\ mosaic' = [mosaic EXCEPT
                           !.pc = "batching",
                           !.batch_outputs = Append(@, streaming_mosaic(chunk))]
    /\ UNCHANGED <<tilerIn, tilerVars, callVars, nameVars, fileVars, mosaicIn>>

\* The end of mosaic_tiles: _streaming_mosaic on the batch outputs.
Final_mosaic_s2_composite ==
    /\ mosaic.pc = "batching"
    /\ Len(mosaic.batch_outputs) = chunks(tile_paths, flags.batch_size)
    /\ mosaic' = [mosaic EXCEPT
                    !.pc = "done", !.exists = TRUE,
                    !.output = streaming_mosaic(mosaic.batch_outputs)]
    /\ UNCHANGED <<tilerIn, tilerVars, callVars, nameVars, fileVars, mosaicIn>>

BatchNext ==
    \/ Direct_mosaic_s2_composite
    \/ Batch_mosaic_s2_composite
    \/ Final_mosaic_s2_composite

BatchSpec == BatchInit /\ [][BatchNext]_vars

\* The raster one streaming pass over the whole tile list leaves.
OnePass == streaming_mosaic(tile_paths)

\* C25 as stated: the raster mosaic_tiles leaves has the dimensions, the
\* origin and the values of one streaming pass over the whole list, batched
\* or not.
C25_BatchingChangesNothing ==
    mosaic.pc = "done" => mosaic.output = OnePass

\* C25 for the grid, and for the values without intermediates of several
\* tiles: the raster mosaic_tiles leaves has the dimensions and the origin
\* of one streaming pass; it has its values too when the list fits one batch
\* or batch_size is 1; and otherwise every pixel has the value of the one
\* pass or is nodata.
C25_BatchingKeepsGrid ==
    mosaic.pc = "done" =>
        /\ [mosaic.output EXCEPT !.data = <<>>] = [OnePass EXCEPT !.data = <<>>]
        /\ DOMAIN mosaic.output.data = DOMAIN OnePass.data
        /\ (Len(tile_paths) <= flags.batch_size \/ flags.batch_size = 1) =>
              mosaic.output = OnePass
        /\ \A q \in DOMAIN OnePass.data :
              \/ mosaic.output.data[q] = OnePass.data[q]
              \/ mosaic.output.data[q] = Nodata

\* Four tiles in batches of two: a pixel the first batch wrote is nodata in
\* the final raster, under the unwritten area of the second batch's
\* intermediate.
C25_Witness ==
    /\ mosaic.pc = "done"
    /\ Len(tile_paths) = 4
    /\ flags.batch_size = 2
    /\ Len(mosaic.batch_outputs) = 2
    /\ \E q \in DOMAIN OnePass.data :
          /\ OnePass.data[q] = tile_paths[1].data[<<0, 0>>]
          /\ mosaic.output.data[q] = Nodata

----------------------------------------------------------------------------
(* The order in which a mosaic script lists the tile files *)

\* The most tile files in the directory.
MaxTiles == 24

\* Python's ord() on the characters of the part of a tile file name that
\* differs from file to file.
ord ==
    [ch \in {".", "0", "1", "2", "3", "4", "5", "6", "7", "8", "9", "_", "c",
             "f", "i", "r", "t"} |->
        CASE ch = "." -> 46
          [] ch \in {"0", "1", "2", "3", "4", "5", "6", "7", "8", "9"} ->
               48 + (CHOOSE d \in 0 .. 9 : DigitChars[d + 1] = ch)
          [] ch = "_" -> 95
          [] ch = "c" -> 99
          [] ch = "f" -> 102
          [] ch = "i" -> 105
          [] ch = "r" -> 114
          [] ch = "t" -> 116]

\* The decimal digits of n >= 0, character by character.
RECURSIVE DecimalChars(_)
DecimalChars(n) ==
    IF n < 10
    THEN <<DigitChars[n + 1]>>
    ELSE Append(DecimalChars(n \div 10), DigitChars[(n % 10) + 1])

\* download_gee_s2_cloudfree_composite main: the characters of
\* f"..._r{r}_c{c}.tif" after the prefix, year and month, which all files of
\* a run share.
name_cf(r, c) ==
    <<"_", "r">> \o DecimalChars(r) \o <<"_", "c">> \o DecimalChars(c)
        \o <<".", "t", "i", "f">>

\* export_tiled_natural_forest: the characters of
\* f"{stem}_r{row:02d}_c{col:02d}{suffix}" after the stem, with the default
\* suffix.
name_nf(row, col) ==
    <<"_", "r">> \o (IF row < 10 THEN <<"0">> ELSE <<>>) \o DecimalChars(row)
        \o <<"_", "c">> \o (IF col < 10 THEN <<"0">> ELSE <<>>)
        \o DecimalChars(col) \o <<".", "t", "i", "f">>

\* Python's a < b on str (and on Paths of one directory): the first
\* character that differs decides by its code point, and a proper prefix is
\* less.
str_lt(a, b) ==
    \E i \in 1 .. Len(b) :
        /\ \A j \in 1 .. i - 1 : j <= Len(a) /\ a[j] = b[j]
        /\ \/ i = Len(a) + 1
           \/ i <= Len(a) /\ ord[a[i]] < ord[b[i]]

\* sorted(paths) for a set of files with distinct names
sorted(paths) ==
    [i \in 1 .. Cardinality(paths) |->
        CHOOSE x \in paths :
            Cardinality({y \in paths : str_lt(y.name, x.name)}) = i - 1]

ListScripts == {"mosaic_s2_composite", "mosaic_naturalforest"}

\* The files a finished download of a grid of nrows by ncols tiles leaves
\* for the mosaic script s, each with the tile it holds.
Downloaded(s, nrows, ncols) ==
    {[name |-> IF s = "mosaic_s2_composite" THEN name_cf(ix[1], ix[2])
                                            ELSE name_nf(ix[1], ix[2]),
      row |-> ix[1], col |-> ix[2]] :
        ix \in (0 .. nrows - 1) \X (0 .. ncols - 1)}

\* A mosaic script before its first step, in a directory that holds the
\* tiles of a grid.
ListInit ==
    /\ NoTiler
    /\ NoCalls
    /\ NoNames
    /\ provider = "ok"
    /\ dirExists = TRUE
    /\ partial = {}
    /\ job = NoJob
    /\ dirAtStart = TRUE
    /\ events = <<>>
    /\ \E s \in ListScripts, nrows, ncols \in 1 .. MaxIndex + 1 :
          /\ nrows * ncols <= MaxTiles
          /\ files = Downloaded(s, nrows, ncols)
          /\ mosaic = FreshRun(s)
    /\ filesAtStart = files
    /\ tile_paths = <<>>
    /\ max_tile_mb = 0
    /\ start_tile = 1
    /\ flags = NoFlags

\* find_tiles of mosaic_s2_composite.py: the glob, sorted.
find_tiles_mosaic_s2_composite ==
    /\ mosaic.script = "mosaic_s2_composite"
    /\ mosaic.pc = "start"
    /\ tile_paths' = sorted(files)
    /\ mosaic' = [mosaic EXCEPT !.pc = IF files = {} THEN "FileNotFoundError"
                                                     ELSE "listed"]
    /\ UNCHANGED <<tilerIn, tilerVars, callVars, nameVars, fileVars,
                   max_tile_mb, start_tile, flags>>

\* list_tile_paths of mosaic_naturalforest.py: the glob, sorted.
list_tile_paths_mosaic_naturalforest ==
    /\ mosaic.script = "mosaic_naturalforest"
    /\ mosaic.pc = "start"
    /\ tile_paths' = sorted(files)
    /\ mosaic' = [mosaic EXCEPT !.pc = IF files = {} THEN "FileNotFoundError"
                                                     ELSE "listed"]
    /\ UNCHANGED <<tilerIn, tilerVars, callVars, nameVars, fileVars,
                   max_tile_mb, start_tile, flags>>

ListNext ==
    \/ find_tiles_mosaic_s2_composite
    \/ list_tile_paths_mosaic_naturalforest

ListSpec == ListInit /\ [][ListNext]_vars

\* The list holds every file once, and its tiles by row ascending, then by
\* column ascending.
InCanonicalOrder ==
    /\ Len(tile_paths) = Cardinality(files)
    /\ {tile_paths[k] : k \in DOMAIN tile_paths} = files
    /\ \A j, k \in DOMAIN tile_paths :
          j < k => \/ tile_paths[j].row < tile_paths[k].row
                   \/ /\ tile_paths[j].row = tile_paths[k].row
                      /\ tile_paths[j].col < tile_paths[k].col

\* The greatest row and the greatest column among the files.
LastRow == SetMax({f.row : f \in files})
LastCol == SetMax({f.col : f \in files})

\* C21 as stated: the list a mosaic script makes of the tile files is in the
\* tiler's canonical order, whatever the numbers of rows and columns.
C21_ListedInCanonicalOrder ==
    mosaic.pc = "listed" => InCanonicalOrder

\* C21 within the digits of the names: the list of mosaic_naturalforest
\* (two-digit names, rows and columns below 100) is in canonical order; the
\* list of mosaic_s2_composite (names without padding) is in canonical order
\* exactly when every row and column number has one digit; and of the
\* two-digit names, that of row 100 sorts before that of row 99.
C21_CanonicalWithinDigits ==
    /\ mosaic.pc = "listed" =>
          /\ mosaic.script = "mosaic_naturalforest" => InCanonicalOrder
          /\ mosaic.script = "mosaic_s2_composite" =>
                (InCanonicalOrder <=> (LastRow < 10 /\ LastCol < 10))
    /\ str_lt(name_nf(100, 0), name_nf(99, 0))

\* mosaic_s2_composite has listed a grid of eleven rows and two columns: the
\* tiles of row 10 come before those of row 2 and of row 1.
C21_Witness ==
    /\ mosaic.script = "mosaic_s2_composite"
    /\ mosaic.pc = "listed"
    /\ LastRow = 10
    /\ LastCol = 1
    /\ \E j, k \in DOMAIN tile_paths :
          j < k /\ tile_paths[j].row = 10 /\ tile_paths[k].row = 1
    /\ tile_paths[1].row = 0
    /\ tile_paths[3].row = 10

----------------------------------------------------------------------------
(* A Sentinel-2 composite download, and the check that follows it *)

\* calendar.month_abbr[month_num].lower()
month_abbr(month_num) ==
    <<"jan", "feb", "mar", "apr", "may", "jun", "jul", "aug", "sep", "oct",
      "nov", "dec">>[month_num]

\* download_gee_s2_cloudfree_composite main:
\* args.prefix or f"s2_{month_abbr}_{args.year}_cf"
prefix_cf(arg, month_num, year) ==
    IF arg # ""
    THEN arg
    ELSE "s2_" \o month_abbr(month_num) \o "_" \o format_d(year) \o "_cf"

\* download_missing_gee_s2_composite main:
\* args.prefix or f"s2_{month_abbr}_{args.year}"
prefix_miss(arg, month_num, year) ==
    IF arg # ""
    THEN arg
    ELSE "s2_" \o month_abbr(month_num) \o "_" \o format_d(year)

\* check_download_gee_s2_composite main:
\* args.prefix or f"s2_{month_abbr}_{args.year}"
prefix_s2chk(arg, month_num, year) ==
    IF arg # ""
    THEN arg
    ELSE "s2_" \o month_abbr(month_num) \o "_" \o format_d(year)

S2Downloaders ==
    {"download_gee_s2_cloudfree_composite", "download_missing_gee_s2_composite"}

\* A download script before its first step in an empty place, with --prefix
\* given or left out (""), the same for the check that follows.
HandoverInit ==
    /\ polygon \in {Polygon(lat0, MaxExtent, MaxExtent, cut) :
                       lat0 \in {0, LatBand}, cut \in {0, 1}}
    /\ tile_width_km \in 1 .. MaxTileKm
    /\ tile_height_km \in 1 .. MaxTileKm
    /\ overlap_km \in 0 .. MaxOverlapKm
    /\ script = "none"
    /\ tiler = [pc |-> "idle", out |-> <<>>]
    /\ NoCalls
    /\ NoNames
    /\ provider \in {"ok", "down"}
    /\ dirExists = FALSE /\ files = {} /\ partial = {}
    /\ \E s \in S2Downloaders : job = [NoJob EXCEPT !.script = s, !.pc = "start"]
    /\ dirAtStart = FALSE /\ filesAtStart = {}
    /\ events = <<>>
    /\ tile_paths = <<>>
    /\ max_tile_mb = 0
    /\ start_tile = 1
    /\ flags \in {[prefix |-> ""], [prefix |-> Prefix]}
    /\ mosaic = [script |-> "none", pc |-> "idle"]

\* main of download_gee_s2_cloudfree_composite.py, a whole run in which no
\* download fails: every tile of the grid is saved under out_path.
Run_download_gee_s2_cloudfree_composite ==
    /\ job.script = "download_gee_s2_cloudfree_composite"
    /\ job.pc = "start"
    /\ LET prefix == prefix_cf(flags.prefix, MonthNum, Year)
           t == list_tiles("download_gee_s2_cloudfree_composite")
           paths == {out_path_cf(OutputDir, prefix, Year, MonthNum,
                                 t.out[k].row, t.out[k].col) :
                        k \in 1 .. Len(t.out)}
       IN  IF t.pc = "ValueError" \/ provider = "down"
           THEN /\ job' = [job EXCEPT !.pc = IF t.pc = "ValueError"
                                             THEN "ValueError"
                                             ELSE "EEException"]
                /\ UNCHANGED <<dirExists, files>>
           ELSE /\ job' = [job EXCEPT !.pc = "done", !.total = Len(t.out)]
                /\ dirExists' = TRUE
                /\ files' = files \cup paths
    /\ UNCHANGED <<tilerIn, tilerVars, callVars, nameVars, provider, partial,
                   histVars, mosaicVars>>

\* main of download_missing_gee_s2_composite.py, a whole run in which no
\* download fails: every tile whose fpath is absent is saved under it.
Run_download_missing_gee_s2_composite ==
    /\ job.script = "download_missing_gee_s2_composite"
    /\ job.pc = "start"
    /\ LET prefix == prefix_miss(flags.prefix, MonthNum, Year)
           t == list_tiles("download_missing_gee_s2_composite")
           paths == {fpath_miss(OutputDir, prefix, Year, MonthNum,
                                t.out[k].row, t.out[k].col) :
                        k \in 1 .. Len(t.out)}
       IN  IF t.pc = "ValueError" \/ (provider = "down" /\ paths \ files # {})
           THEN /\ job' = [job EXCEPT !.pc = IF t.pc = "ValueError"
                                             THEN "ValueError"
                                             ELSE "EEException"]
                /\ UNCHANGED <<dirExists, files>>
           ELSE /\ job' = [job EXCEPT !.pc = "done", !.total = Len(t.out)]
                /\ dirExists' = (dirExists \/ paths \ files # {})
                /\ files' = files \cup paths
    /\ UNCHANGED <<tilerIn, tilerVars, callVars, nameVars, provider, partial,
                   histVars, mosaicVars>>

\* main of check_download_gee_s2_composite.py, a whole run after a download
\* run that completed, with the same command line; events keeps the script
\* that downloaded.
Check_check_download_gee_s2_composite ==
    /\ job.script \in S2Downloaders
    /\ job.pc = "done"
    /\ LET prefix == prefix_s2chk(flags.prefix, MonthNum, Year)
           t == list_tiles("check_download_gee_s2_composite")
           expected == [k \in 1 .. Len(t.out) |->
                          fpath_s2chk(OutputDir, prefix, Year, MonthNum,
                                      t.out[k].row, t.out[k].col, Ext)]
           absent(fpath) == fpath \notin files
       IN  job' = [NoJob EXCEPT
                     !.script = "check_download_gee_s2_composite",
                     !.pc = "done", !.listed = TRUE,
                     !.total = Len(t.out),
                     !.missing = SelectSeq(expected, absent)]
    /\ events' = Append(events, job.script)
    /\ UNCHANGED <<tilerIn, tilerVars, callVars, nameVars, provider, diskVars,
                   dirAtStart, filesAtStart, mosaicVars>>

HandoverNext ==
    \/ Run_download_gee_s2_cloudfree_composite
    \/ Run_download_missing_gee_s2_composite
    \/ Check_check_download_gee_s2_composite

HandoverSpec == HandoverInit /\ [][HandoverNext]_vars

\* The checker has reported on the tiles the script s downloaded.
CheckedAfter(s) ==
    /\ job.script = "check_download_gee_s2_composite"
    /\ job.pc = "done"
    /\ events = <<s>>

\* C22 as stated: after a completed download with the default prefix, the
\* checker with its default prefix reports no tile missing.
C22_CheckerFindsDownloadedTiles ==
    (flags.prefix = "" /\ \E s \in S2Downloaders : CheckedAfter(s)) =>
        job.missing = <<>>

\* C22 by prefix: the checker reports no tile missing after a completed
\* download when --prefix was given to both, and with the default prefixes
\* after download_missing_gee_s2_composite; after
\* download_gee_s2_cloudfree_composite with the default prefixes it reports
\* every tile missing.
C22_CheckerAgreesOnGivenPrefix ==
    /\ (flags.prefix # "" /\ \E s \in S2Downloaders : CheckedAfter(s)) =>
          job.missing = <<>>
    /\ (flags.prefix = "" /\ CheckedAfter("download_missing_gee_s2_composite")) =>
          job.missing = <<>>
    /\ (flags.prefix = ""
          /\ CheckedAfter("download_gee_s2_cloudfree_composite")) =>
          /\ job.total > 0
          /\ Len(job.missing) = job.total
          /\ Cardinality(files) = job.total

\* The checker has run with its default prefix after the cloud-free download
\* of a grid of several tiles with its default prefix: the files are there,
\* and every tile is reported missing.
C22_Witness ==
    /\ flags.prefix = ""
    /\ CheckedAfter("download_gee_s2_cloudfree_composite")
    /\ job.total > 1
    /\ Cardinality(files) = job.total
    /\ Len(job.missing) = job.total

----------------------------------------------------------------------------
(* mosaic_alphaearth_tiles: gdalbuildvrt and gdalwarp over the tiles *)

\* The GDAL programs the script runs as subprocesses.
Commands == {"gdal_translate", "gdalbuildvrt", "gdalwarp"}

\* The run of mosaic_alphaearth_tiles before its first step, with the output
\* file of an earlier run there or not; atStart keeps what was there.
AlphaRun(exists) ==
    LET file == [exists |-> exists,
                 content |-> [by |-> IF exists THEN "earlier run" ELSE "",
                              tiles |-> <<>>]]
    IN  [script |-> "mosaic_alphaearth_tiles", pc |-> "start",
         exists |-> file.exists, content |-> file.content, atStart |-> file,
         used |-> <<>>, idx |-> 0, cleaned |-> <<>>, vrt |-> FALSE]

AlphaInit ==
    /\ NoTiler
    /\ NoCalls
    /\ NoNames
    /\ NoFiles
    /\ tile_paths \in ResumeTiles \cup {<<>>}
    /\ max_tile_mb = 0
    /\ start_tile = 1
    /\ flags \in [clean_tiles : BOOLEAN, skip_errors : BOOLEAN,
                  keep_vrt : BOOLEAN, overwrite : BOOLEAN]
    /\ mosaic \in {AlphaRun(exists) : exists \in BOOLEAN}

\* main up to the cleaning: list_tile_paths, and with --clean-tiles the
\* start of clean_tiles, which makes its temporary directory.
List_mosaic_alphaearth_tiles ==
    /\ mosaic.script = "mosaic_alphaearth_tiles"
    /\ mosaic.pc = "start"
    /\ IF tile_paths = <<>>
       THEN /\ mosaic' = [mosaic EXCEPT !.pc = "FileNotFoundError"]
            /\ UNCHANGED events
       ELSE IF flags.clean_tiles
       THEN /\ mosaic' = [mosaic EXCEPT !.pc = "cleaning",
                                        !.used = tile_paths]
            /\ events' = Append(events, "mkdir")
       ELSE /\ mosaic' = [mosaic EXCEPT !.pc = "checking",
                                        !.used = tile_paths]
            /\ UNCHANGED events
    /\ UNCHANGED <<tilerIn, tilerVars, callVars, nameVars, provider, diskVars,
                   job, dirAtStart, filesAtStart, mosaicIn>>

\* One round of the loop of clean_tiles: gdal_translate on the next tile.  A
\* failure is passed over with --skip-errors and ends the run without; after
\* the last tile main goes on with the cleaned tiles.
Clean_mosaic_alphaearth_tiles ==
    /\ mosaic.script = "mosaic_alphaearth_tiles"
    /\ mosaic.pc = "cleaning"
    /\ events' = Append(events, "gdal_translate")
    /\ LET idx == mosaic.idx + 1
       IN  \E ok \in BOOLEAN :
              LET cleaned == IF ok THEN Append(mosaic.cleaned, tile_paths[idx])
                                   ELSE mosaic.cleaned
              IN  mosaic' =
                    IF ~ok /\ ~flags.skip_errors
                    THEN [mosaic EXCEPT !.pc = "RuntimeError", !.idx = idx]
                    ELSE IF idx = Len(tile_paths)
                    THEN [mosaic EXCEPT !.pc = "checking", !.idx = idx,
                                        !.cleaned = cleaned, !.used = cleaned]
                    ELSE [mosaic EXCEPT !.idx = idx, !.cleaned = cleaned]
    /\ UNCHANGED <<tilerIn, tilerVars, callVars, nameVars, provider, diskVars,
                   job, dirAtStart, filesAtStart, mosaicIn>>

\* main after the cleaning: the mkdir of the output directory, the test of
\* the output file, and read_reference on the first tile.
Check_mosaic_alphaearth_tiles ==
    /\ mosaic.script = "mosaic_alphaearth_tiles"
    /\ mosaic.pc = "checking"
    /\ events' = Append(events, "mkdir")
    /\ mosaic' = IF mosaic.exists /\ ~flags.overwrite
                 THEN [mosaic EXCEPT !.pc = "FileExistsError"]
                 ELSE IF mosaic.used = <<>>
                 THEN [mosaic EXCEPT !.pc = "IndexError"]
                 ELSE [mosaic EXCEPT !.pc = "vrt"]
    /\ UNCHANGED <<tilerIn, tilerVars, callVars, nameVars, provider, diskVars,
                   job, dirAtStart, filesAtStart, mosaicIn>>

\* build_vrt: gdalbuildvrt over the tile list.
BuildVrt_mosaic_alphaearth_tiles ==
    /\ mosaic.script = "mosaic_alphaearth_tiles"
    /\ mosaic.pc = "vrt"
    /\ events' = Append(events, "gdalbuildvrt")
    /\ \E ok \in BOOLEAN :
          mosaic' = IF ok
                    THEN [mosaic EXCEPT !.pc = "warp", !.vrt = TRUE]
                    ELSE [mosaic EXCEPT !.pc = "RuntimeError"]
    /\ UNCHANGED <<tilerIn, tilerVars, callVars, nameVars, provider, diskVars,
                   job, dirAtStart, filesAtStart, mosaicIn>>

\* warp_to_geotiff and the end of main: gdalwarp writes the output, then the
\* VRT is removed unless --keep-vrt.  A failing gdalwarp ends the run and
\* may have begun the output.
Warp_mosaic_alphaearth_tiles ==
    /\ mosaic.script = "mosaic_alphaearth_tiles"
    /\ mosaic.pc = "warp"
    /\ events' = Append(events, "gdalwarp")
    /\ \E outcome \in {"ok", "failed", "broken"} :
          mosaic' =
            CASE outcome = "ok" ->
                   [mosaic EXCEPT
                      !.pc = "done", !.exists = TRUE,
                      !.content = [by |-> "gdalwarp", tiles |-> mosaic.used],
                      !.vrt = flags.keep_vrt]
              [] outcome = "failed" ->
                   [mosaic EXCEPT !.pc = "RuntimeError"]
              [] outcome = "broken" ->
                   [mosaic EXCEPT
                      !.pc = "RuntimeError", !.exists = TRUE,
                      !.content = [by |-> "gdalwarp, incomplete",
                                   tiles |-> mosaic.used]]
    /\ UNCHANGED <<tilerIn, tilerVars, callVars, nameVars, provider, diskVars,
                   job, dirAtStart, filesAtStart, mosaicIn>>

AlphaNext ==
    \/ List_mosaic_alphaearth_tiles
    \/ Clean_mosaic_alphaearth_tiles
    \/ Check_mosaic_alphaearth_tiles
    \/ BuildVrt_mosaic_alphaearth_tiles
    \/ Warp_mosaic_alphaearth_tiles

AlphaSpec == AlphaInit /\ [][AlphaNext]_vars

\* The output file was there when the run started and --overwrite is not
\* given.
OutputInTheWay == mosaic.atStart.exists /\ ~flags.overwrite

AlphaErrors ==
    {"FileNotFoundError", "FileExistsError", "RuntimeError", "IndexError"}

\* C20 as stated: with the output file there and no --overwrite, whatever
\* the other switches, the run never gets past its checks, the output file
\* stays as it was, and no GDAL program has been run.
C20_ExistingOutputRefused ==
    OutputInTheWay =>
        /\ mosaic.pc \in {"start", "cleaning", "checking"} \cup AlphaErrors
        /\ mosaic.exists
        /\ mosaic.content = mosaic.atStart.content
        /\ \A k \in 1 .. Len(events) : events[k] \notin Commands

\* C20 without the cleaning: with the output file there and no --overwrite,
\* the run never gets past its checks and the output file stays as it was;
\* gdalbuildvrt and gdalwarp are not run, and without --clean-tiles no GDAL
\* program is.
C20_RefusedBeforeMosaicking ==
    OutputInTheWay =>
        /\ mosaic.pc \in {"start", "cleaning", "checking"} \cup AlphaErrors
        /\ mosaic.exists
        /\ mosaic.content = mosaic.atStart.content
        /\ \A k \in 1 .. Len(events) :
              /\ events[k] \notin {"gdalbuildvrt", "gdalwarp"}
              /\ ~flags.clean_tiles => events[k] \notin Commands

\* A run without --clean-tiles and without --overwrite has found the output
\* file there and stopped, with --keep-vrt given.
C20_Witness ==
    /\ mosaic.script = "mosaic_alphaearth_tiles"
    /\ OutputInTheWay
    /\ ~flags.clean_tiles
    /\ flags.keep_vrt
    /\ mosaic.pc = "FileExistsError"
    /\ events = <<"mkdir">>

----------------------------------------------------------------------------
(* The download scripts, from their start to their last tile *)

DownloadScripts ==
    {"download_alphaearth_embeddings", "download_naturalforest",
     "download_gee_s2_cloudfree_composite", "download_gee_s2"}

\* Earth Engine as a download script meets it: "no_sr" has no
\* surface-reflectance scene for the period but has top-of-atmosphere ones.
Providers == {"ok", "no_sr", "empty", "down"}

\* initialize_earth_engine: ee.Initialize, and ee.Authenticate after an
\* EEException
initialize_earth_engine(prov) ==
    IF prov = "down"
    THEN [pc |-> "EEException", events |-> <<"ee.Initialize", "ee.Authenticate">>]
    ELSE [pc |-> "ok", events |-> <<"ee.Initialize">>]

\* init_ee, and ee.Initialize() in main of download_gee_s2.py
init_ee(prov) ==
    [pc |-> IF prov = "down" THEN "EEException" ELSE "ok",
     events |-> <<"ee.Initialize">>]

\* Mutant: the size of the collection is not tested.
build_embeddings_image_NoTest(prov) ==
    [pc |-> "ok", events |-> <<"size GOOGLE/SATELLITE_EMBEDDING/V1/ANNUAL">>]

\* build_embeddings_image of download_alphaearth_embeddings.py
build_embeddings_image(prov) ==
    [pc |-> IF prov = "empty" THEN "RuntimeError" ELSE "ok",
     events |-> <<"size GOOGLE/SATELLITE_EMBEDDING/V1/ANNUAL">>]

\* build_natural_forest_image of download_naturalforest.py
build_natural_forest_image(prov) ==
    [pc |-> IF prov = "empty" THEN "RuntimeError" ELSE "ok",
     events |-> <<"size COLLECTION_ID">>]

\* build_composite of download_gee_s2_cloudfree_composite.py, with
\* build_cloud_masked_collection: the surface-reflectance scenes masked by
\* cloud probability, or the top-of-atmosphere scenes when there are none.
build_composite(prov) ==
    [pc |-> IF prov = "empty" THEN "SystemExit" ELSE "ok",
     events |-> IF prov \in {"empty", "no_sr"}
                THEN <<"size COPERNICUS/S2_SR_HARMONIZED",
                       "size COPERNICUS/S2_HARMONIZED">>
                ELSE <<"size COPERNICUS/S2_SR_HARMONIZED",
                       "size COPERNICUS/S2_CLOUD_PROBABILITY",
                       "size COPERNICUS/S2_SR_HARMONIZED, masked">>]

\* main of download_gee_s2.py: the collection of the date and its size
collection_s2(prov) ==
    [pc |-> IF prov \in {"empty", "no_sr"} THEN "SystemExit" ELSE "ok",
     events |-> <<"size COPERNICUS/S2_SR_HARMONIZED">>]

\* The tiles of the script s, each with the path of its file.
tile_files(s, tiles) ==
    [k \in 1 .. Len(tiles) |->
        [row |-> tiles[k].row, col |-> tiles[k].col,
         path |-> PathOf(s, <<tiles[k].row, tiles[k].col>>)]]

DownloadInit ==
    /\ polygon \in {Polygon(0, MaxExtent, MaxExtent, cut) : cut \in {0, 1}}
    /\ tile_width_km \in {0, MaxTileKm}
    /\ tile_height_km = MaxTileKm
    /\ overlap_km \in {0, MaxTileKm}
    /\ script = "none"
    /\ tiler = [pc |-> "idle", out |-> <<>>]
    /\ NoCalls
    /\ output \in OutputBases
    /\ indices = <<0, 0>>
    /\ derived = [script |-> "none", path |-> ""]
    /\ provider \in Providers
    /\ \E s \in DownloadScripts : job = [NoJob EXCEPT !.script = s, !.pc = "start"]
    /\ dirExists \in BOOLEAN
    /\ files = {}
    /\ partial = {}
    /\ dirAtStart = dirExists
    /\ filesAtStart = files
    /\ events = <<>>
    /\ NoMosaic

\* main of download_alphaearth_embeddings.py up to the export loop of
\* export_tiled_embeddings: Earth Engine, the image, the tiles, the mkdir.
Prepare_download_alphaearth_embeddings ==
    /\ job.script = "download_alphaearth_embeddings"
    /\ job.pc = "start"
    /\ LET ini == initialize_earth_engine(provider)
           img == build_embeddings_image(provider)
           t == list_tiles("download_alphaearth_embeddings")
           asked == ini.events \o img.events
       IN  IF ini.pc # "ok"
           THEN /\ job' = [job EXCEPT !.pc = ini.pc]
                /\ events' = ini.events
                /\ UNCHANGED dirExists
           ELSE IF img.pc # "ok"
           THEN /\ job' = [job EXCEPT !.pc = img.pc]
                /\ events' = asked
                /\ UNCHANGED dirExists
           ELSE IF t.pc = "ValueError"
           THEN /\ job' = [job EXCEPT !.pc = "ValueError"]
                /\ events' = asked
                /\ UNCHANGED dirExists
           ELSE IF t.out = <<>>
           THEN /\ job' = [job EXCEPT !.pc = "RuntimeError"]
                /\ events' = asked
                /\ UNCHANGED dirExists
           ELSE /\ job' = [job EXCEPT
                             !.pc = "downloading", !.listed = TRUE,
                             !.total = Len(t.out),
                             !.missing =
                                tile_files("download_alphaearth_embeddings",
                                           t.out)]
                /\ events' = Append(asked, "mkdir")
                /\ dirExists' = TRUE
    /\ UNCHANGED <<tilerIn, tilerVars, callVars, nameVars, provider, files,
                   partial, dirAtStart, filesAtStart, mosaicVars>>

\* One round of the export loop of export_tiled_embeddings:
\* geemap.ee_export_image writes the file, or reports its error and returns.
Export_download_alphaearth_embeddings ==
    /\ job.script = "download_alphaearth_embeddings"
    /\ job.pc = "downloading"
    /\ LET idx == Len(job.progress) + 1
           tile == job.missing[idx]
       IN  /\ job' = [job EXCEPT
                        !.progress = Append(@, [idx |-> idx, total |-> job.total,
                                                row |-> tile.row,
                                                col |-> tile.col,
                                                path |-> tile.path]),
                        !.pc = IF idx = job.total THEN "done" ELSE "downloading"]
           /\ events' = Append(events, "ee_export_image")
           /\ \E exported \in BOOLEAN :
                 files' = IF exported THEN files \cup {tile.path} ELSE files
    /\ UNCHANGED <<tilerIn, tilerVars, callVars, nameVars, provider, dirExists,
                   partial, dirAtStart, filesAtStart, mosaicVars>>

\* main of download_naturalforest.py up to the export loop of
\* export_tiled_natural_forest: Earth Engine, the image, the tiles, the mkdir.
Prepare_download_naturalforest ==
    /\ job.script = "download_naturalforest"
    /\ job.pc = "start"
    /\ LET ini == initialize_earth_engine(provider)
           img == build_natural_forest_image(provider)
           t == list_tiles("download_naturalforest")
           asked == ini.events \o img.events
       IN  IF ini.pc # "ok"
           THEN /\ job' = [job EXCEPT !.pc = ini.pc]
                /\ events' = ini.events
                /\ UNCHANGED dirExists
           ELSE IF img.pc # "ok"
           THEN /\ job' = [job EXCEPT !.pc = img.pc]
                /\ events' = asked
                /\ UNCHANGED dirExists
           ELSE IF t.pc = "ValueError"
           THEN /\ job' = [job EXCEPT !.pc = "ValueError"]
                /\ events' = asked
                /\ UNCHANGED dirExists
           ELSE IF t.out = <<>>
           THEN /\ job' = [job EXCEPT !.pc = "RuntimeError"]
                /\ events' = asked
                /\ UNCHANGED dirExists
           ELSE /\ job' = [job EXCEPT
                             !.pc = "downloading", !.listed = TRUE,
                             !.total = Len(t.out),
                             !.missing = tile_files("download_naturalforest",
                                                    t.out)]
                /\ events' = Append(asked, "mkdir")
                /\ dirExists' = TRUE
    /\ UNCHANGED <<tilerIn, tilerVars, callVars, nameVars, provider, files,
                   partial, dirAtStart, filesAtStart, mosaicVars>>

\* One round of the export loop of export_tiled_natural_forest.
Export_download_naturalforest ==
    /\ job.script = "download_naturalforest"
    /\ job.pc = "downloading"
    /\ LET idx == Len(job.progress) + 1
           tile == job.missing[idx]
       IN  /\ job' = [job EXCEPT
                        !.progress = Append(@, [idx |-> idx, total |-> job.total,
                                                row |-> tile.row,
                                                col |-> tile.col,
                                                path |-> tile.path]),
                        !.pc = IF idx = job.total THEN "done" ELSE "downloading"]
           /\ events' = Append(events, "ee_export_image")
           /\ \E exported \in BOOLEAN :
                 files' = IF exported THEN files \cup {tile.path} ELSE files
    /\ UNCHANGED <<tilerIn, tilerVars, callVars, nameVars, provider, dirExists,
                   partial, dirAtStart, filesAtStart, mosaicVars>>

\* main of download_gee_s2_cloudfree_composite.py up to its download loop:
\* the tiles, then Earth Engine and the composite.
Prepare_download_gee_s2_cloudfree_composite ==
    /\ job.script = "download_gee_s2_cloudfree_composite"
    /\ job.pc = "start"
    /\ LET t == list_tiles("download_gee_s2_cloudfree_composite")
           ini == init_ee(provider)
           img == build_composite(provider)
       IN  IF t.pc = "ValueError"
           THEN /\ job' = [job EXCEPT !.pc = "ValueError"]
                /\ UNCHANGED events
           ELSE IF ini.pc # "ok"
           THEN /\ job' = [job EXCEPT !.pc = ini.pc]
                /\ events' = ini.events
           ELSE IF img.pc # "ok"
           THEN /\ job' = [job EXCEPT !.pc = img.pc]
                /\ events' = ini.events \o img.events
           ELSE /\ job' = [job EXCEPT
                             !.pc = IF t.out = <<>> THEN "done"
                                                    ELSE "downloading",
                             !.listed = TRUE,
                             !.total = Len(t.out),
                             !.missing =
                                tile_files("download_gee_s2_cloudfree_composite",
                                           t.out)]
                /\ events' = ini.events \o img.events
    /\ UNCHANGED <<tilerIn, tilerVars, callVars, nameVars, provider, diskVars,
                   dirAtStart, filesAtStart, mosaicVars>>

\* One round of the download loop of main: download_tile either saves the
\* file, or fails at getDownloadURL (before the mkdir), at raise_for_status
\* (after the mkdir, before the file is opened) or in the middle of the
\* stream (the file is left incomplete).
Download_download_gee_s2_cloudfree_composite ==
    /\ job.script = "download_gee_s2_cloudfree_composite"
    /\ job.pc = "downloading"
    /\ LET idx == Len(job.progress) + 1
           tile == job.missing[idx]
           called == Append(job.progress,
                            [idx |-> idx, total |-> job.total, row |-> tile.row,
                             col |-> tile.col, path |-> tile.path])
       IN  \E outcome \in {"saved", "EEException", "HTTPError",
                           "ConnectionError"} :
              /\ job' = [job EXCEPT
                           !.progress = called,
                           !.pc = IF outcome = "saved"
                                  THEN IF idx = job.total THEN "done"
                                                          ELSE "downloading"
                                  ELSE outcome]
              /\ events' = IF outcome = "EEException"
                           THEN Append(events, "getDownloadURL")
                           ELSE events \o <<"getDownloadURL", "mkdir",
                                            "requests.get">>
              /\ dirExists' = IF outcome = "EEException"
                              THEN dirExists
                              ELSE TRUE
              /\ files' = IF outcome \in {"saved", "ConnectionError"}
                          THEN files \cup {tile.path}
                          ELSE files
              /\ partial' = IF outcome = "ConnectionError"
                            THEN partial \cup {tile.path}
                            ELSE partial \ {tile.path}
    /\ UNCHANGED <<tilerIn, tilerVars, callVars, nameVars, provider,
                   dirAtStart, filesAtStart, mosaicVars>>

\* main of download_gee_s2.py up to its download loop: Earth Engine, the
\* collection of the date, then the tiles.
Prepare_download_gee_s2 ==
    /\ job.script = "download_gee_s2"
    /\ job.pc = "start"
    /\ LET ini == init_ee(provider)
           img == collection_s2(provider)
           t == list_tiles("download_gee_s2")
       IN  IF ini.pc # "ok"
           THEN /\ job' = [job EXCEPT !.pc = ini.pc]
                /\ events' = ini.events
           ELSE IF img.pc # "ok"
           THEN /\ job' = [job EXCEPT !.pc = img.pc]
                /\ events' = ini.events \o img.events
           ELSE IF t.pc = "ValueError"
           THEN /\ job' = [job EXCEPT !.pc = "ValueError"]
                /\ events' = ini.events \o img.events
           ELSE /\ job' = [job EXCEPT
                             !.pc = IF t.out = <<>> THEN "done"
                                                    ELSE "downloading",
                             !.listed = TRUE,
                             !.total = Len(t.out),
                             !.missing = tile_files("download_gee_s2", t.out)]
                /\ events' = ini.events \o img.events
    /\ UNCHANGED <<tilerIn, tilerVars, callVars, nameVars, provider, diskVars,
                   dirAtStart, filesAtStart, mosaicVars>>

\* One round of the download loop of main of download_gee_s2.py.
Download_download_gee_s2 ==
    /\ job.script = "download_gee_s2"
    /\ job.pc = "downloading"
    /\ LET idx == Len(job.progress) + 1
           tile == job.missing[idx]
           called == Append(job.progress,
                            [idx |-> idx, total |-> job.total, row |-> tile.row,
                             col |-> tile.col, path |-> tile.path])
       IN  \E outcome \in {"saved", "EEException", "HTTPError",
                           "ConnectionError"} :
              /\ job' = [job EXCEPT
                           !.progress = called,
                           !.pc = IF outcome = "saved"
                                  THEN IF idx = job.total THEN "done"
                                                          ELSE "downloading"
                                  ELSE outcome]
              /\ events' = IF outcome = "EEException"
                           THEN Append(events, "getDownloadURL")
                           ELSE events \o <<"getDownloadURL", "mkdir",
                                            "requests.get">>
              /\ dirExists' = IF outcome = "EEException"
                              THEN dirExists
                              ELSE TRUE
              /\ files' = IF outcome \in {"saved", "ConnectionError"}
                          THEN files \cup {tile.path}
                          ELSE files
              /\ partial' = IF outcome = "ConnectionError"
                            THEN partial \cup {tile.path}
                            ELSE partial \ {tile.path}
    /\ UNCHANGED <<tilerIn, tilerVars, callVars, nameVars, provider,
                   dirAtStart, filesAtStart, mosaicVars>>

DownloadNext ==
    \/ Prepare_download_alphaearth_embeddings
    \/ Export_download_alphaearth_embeddings
    \/ Prepare_download_naturalforest
    \/ Export_download_naturalforest
    \/ Prepare_download_gee_s2_cloudfree_composite
    \/ Download_download_gee_s2_cloudfree_composite
    \/ Prepare_download_gee_s2
    \/ Download_download_gee_s2

DownloadSpec == DownloadInit /\ [][DownloadNext]_vars

\* A tile dimension is not positive, or the overlap is as large as one.
InvalidTileSpec ==
    \/ tile_width_km <= 0 \/ tile_height_km <= 0
    \/ overlap_km >= tile_width_km \/ overlap_km >= tile_height_km

\* Nothing has gone over the network and nothing was made on disk.
NoIOYet ==
    /\ events = <<>>
    /\ dirExists = dirAtStart
    /\ files = filesAtStart

\* C15 as stated: a download script given an invalid tile spec ends with the
\* configuration error before any network call and before any directory or
\* file is made.
C15_InvalidSpecReportedFirst ==
    (InvalidTileSpec /\ job.pc # "start") =>
        /\ job.pc = "ValueError"
        /\ NoIOYet

\* C15 for download_gee_s2_cloudfree_composite alone, which lists its tiles
\* first: given an invalid tile spec it ends with the configuration error
\* before any network call and before any directory or file is made.
C15_CloudfreeChecksFirst ==
    (job.script = "download_gee_s2_cloudfree_composite"
        /\ InvalidTileSpec /\ job.pc # "start") =>
        /\ job.pc = "ValueError"
        /\ NoIOYet

\* download_gee_s2_cloudfree_composite has refused an overlap of a whole
\* tile with Earth Engine out of reach, which it never found out.
C15_Witness ==
    /\ job.script = "download_gee_s2_cloudfree_composite"
    /\ tile_width_km > 0
    /\ overlap_km >= tile_width_km
    /\ provider = "down"
    /\ job.pc = "ValueError"
    /\ NoIOYet

\* The collection the script s asks for has no image for the period.
EmptyFor(s) ==
    \/ provider = "empty"
    \/ provider = "no_sr" /\ s = "download_gee_s2"

\* C18: a download script whose collection is empty ends with an error (a
\* RuntimeError or SystemExit; the configuration error where the tile spec
\* is refused before the collection is asked for), has made no directory and
\* no file, has asked for no tile, and has put no query twice.
C18_EmptyCollectionStops ==
    (EmptyFor(job.script) /\ job.pc # "start") =>
        /\ job.pc \in {"RuntimeError", "SystemExit", "ValueError"}
        /\ job.pc = "ValueError" =>
              /\ job.script = "download_gee_s2_cloudfree_composite"
              /\ InvalidTileSpec
        /\ dirExists = dirAtStart
        /\ files = filesAtStart
        /\ job.progress = <<>>
        /\ \A k \in 1 .. Len(events) :
              /\ events[k] \notin {"mkdir", "ee_export_image",
                                   "getDownloadURL", "requests.get"}
              /\ \A j \in 1 .. Len(events) : events[j] = events[k] => j = k

\* download_alphaearth_embeddings found no embeddings for the year and has
\* ended with its RuntimeError, after one query.
C18_Witness ==
    /\ job.script = "download_alphaearth_embeddings"
    /\ provider = "empty"
    /\ ~InvalidTileSpec
    /\ job.pc = "RuntimeError"
    /\ Len(events) = 2
    /\ files = {}

====
